---------------------------- MODULE Spec2Model ----------------------------
(***************************************************************************)
(* Governance core of the crush agent runtime: path validation             *)
(* (internal/llm/tools/pathsecurity.go), command validation and variable   *)
(* resolution (config resolver), and the learning permission service       *)
(* (internal/permission/smart.go).                                         *)
(*                                                                         *)
(* Strings are sequences of one-character strings, so that slicing,        *)
(* searching and cleaning are computed and not assumed.                    *)
(***************************************************************************)
EXTENDS Naturals, Integers, Sequences, FiniteSets, TLC

VARIABLES
    \* ValidatePathSecurity
    vpRequested, vpWorkingDir, vpPc, vpResult,
    \* validateCommand
    vcCommand, vcAllow, vcAllowed, vcPc, vcResult,
    \* ResolveValue
    rvValue, rvAllow, rvEnv, rvPc, rvResult, rvOrigin, rvSearchStart,
    rvRet, rvExecs, rvReads, rvPrev,
    \* SmartPermissionService
    enabled, patterns, now, gateCalls, lastRequest,
    \* ResponseCache
    rcEnabled, rcMaxSize, rcTTL, rcCache, rcNow, rcProc, rcCall,
    \* getPatternKey
    kpPathA, kpPathB, kpPc, kpKeys,
    \* SmartPermissionService under parallel Request calls, with its pattern file
    lvPc, lvFile, lvHeap, lvTable, lvNil, lvLoaded, lvReq, lvSave,
    \* the execution of one accepted command substitution of ResolveValue
    exPc, exDuration, exFails, exElapsed, exCancelled, exCancelAt, exRet,
    \* CostEstimator
    ceThreshold, ceCalls,
    \* generateCacheKey on two requests
    ckReqA, ckReqB, ckPc, ckKeys,
    \* ClearLearning on the service with its pattern file
    clPc,
    \* FeedbackMechanism.EvaluateResponse
    fbEnabled, fbThreshold, fbUser, fbResponse, fbPc, fbRet,
    \* OptimizeMessages: the caller's transcript, the arrays of parts, the call
    omMessages, omHeap, omReduction, omPc, omRet, omGiven,
    \* the batch tool: its working directory, the file system, one operation
    btWorkingDir, btOp, btFiles, btDirs, btRead, btWritten, btWalked, btPc, btErr,
    \* RestoreCheckpoint: the repository, the context, the permission requests, the call
    cpIsGitRepo, cpSessionID, cpMessageID, cpCheckpointID, cpStashes, cpWorktree, cpRequests, cpGranted, cpPc, cpErr

vpVars == <<vpRequested, vpWorkingDir, vpPc, vpResult>>
vcVars == <<vcCommand, vcAllow, vcAllowed, vcPc, vcResult>>
rvVars == <<rvValue, rvAllow, rvEnv, rvPc, rvResult, rvOrigin, rvSearchStart,
            rvRet, rvExecs, rvReads, rvPrev>>
spVars == <<enabled, patterns, now, gateCalls, lastRequest>>
rcVars == <<rcEnabled, rcMaxSize, rcTTL, rcCache, rcNow, rcProc, rcCall>>
kpVars == <<kpPathA, kpPathB, kpPc, kpKeys>>
lvVars == <<lvPc, lvFile, lvHeap, lvTable, lvNil, lvLoaded, lvReq, lvSave>>
exVars == <<exPc, exDuration, exFails, exElapsed, exCancelled, exCancelAt, exRet>>
ceVars == <<ceThreshold, ceCalls>>
ckVars == <<ckReqA, ckReqB, ckPc, ckKeys>>
clVars == <<clPc>>
fbVars == <<fbEnabled, fbThreshold, fbUser, fbResponse, fbPc, fbRet>>
omVars == <<omMessages, omHeap, omReduction, omPc, omRet, omGiven>>
btVars == <<btWorkingDir, btOp, btFiles, btDirs, btRead, btWritten, btWalked, btPc, btErr>>
cpVars == <<cpIsGitRepo, cpSessionID, cpMessageID, cpCheckpointID, cpStashes, cpWorktree, cpRequests, cpGranted, cpPc, cpErr>>
vars == <<vpVars, vcVars, rvVars, spVars, rcVars, kpVars, lvVars, exVars, ceVars, ckVars, clVars, fbVars, omVars, btVars, cpVars>>

----------------------------------------------------------------------------
(* Bounds of the model *)

MaxPathLen == 5
MaxCmdWords == 3
MaxValueLen == 4
MaxExecs == 2
MaxRequests == 5
MaxDays == 93
MaxClock == 2
MaxCapacity == 2
MaxDuration == 6
MaxCost == 2
MaxCalls == 2

----------------------------------------------------------------------------
(* Strings (package strings) *)

SeqsUpTo(S, n) == UNION {[1..k -> S] : k \in 0..n}

\* s[i:] of Go with a 1-based first index
Drop(s, i) == SubSeq(s, i, Len(s))

\* strings.HasPrefix
HasPrefix(s, p) == Len(p) <= Len(s) /\ SubSeq(s, 1, Len(p)) = p

\* sub occurs in s at (1-based) position i
OccursAt(s, sub, i) ==
    /\ i >= 1
    /\ i + Len(sub) - 1 <= Len(s)
    /\ SubSeq(s, i, i + Len(sub) - 1) = sub

\* strings.Contains
Contains(s, sub) == \E i \in 1..(Len(s) + 1) : OccursAt(s, sub, i)

\* strings.Index, 1-based; 0 when sub does not occur
Index(s, sub) ==
    IF Contains(s, sub)
    THEN CHOOSE i \in 1..(Len(s) + 1) :
            /\ OccursAt(s, sub, i)
            /\ \A j \in 1..(i - 1) : ~OccursAt(s, sub, j)
    ELSE 0

\* strings.Index(s[from:], sub) re-based to s; from is 1-based; 0 when absent
IndexFrom(s, sub, from) ==
    LET r == Index(Drop(s, from), sub) IN
    IF r = 0 THEN 0 ELSE r + from - 1

----------------------------------------------------------------------------
(* Paths (package path/filepath, Unix) *)

Sep == "/"
Dot == <<".">>
DotDot == <<".", ".">>

\* filepath.IsAbs
IsAbs(p) == Len(p) > 0 /\ p[1] = Sep

\* the elements between separators, empty ones included
RECURSIVE SplitSegs(_)
SplitSegs(p) ==
    LET i == Index(p, <<Sep>>) IN
    IF i = 0 THEN <<p>>
    ELSE <<SubSeq(p, 1, i - 1)>> \o SplitSegs(Drop(p, i + 1))

RECURSIVE JoinSegs(_)
JoinSegs(segs) ==
    IF segs = <<>> THEN <<>>
    ELSE IF Len(segs) = 1 THEN segs[1]
    ELSE segs[1] \o <<Sep>> \o JoinSegs(Tail(segs))

\* the element loop of filepath.Clean: acc is the output built so far
RECURSIVE CleanSegs(_, _, _)
CleanSegs(segs, rooted, acc) ==
    IF segs = <<>> THEN acc
    ELSE LET e == Head(segs)
             rest == Tail(segs)
         IN  IF e = <<>> \/ e = Dot THEN CleanSegs(rest, rooted, acc)
             ELSE IF e = DotDot
             THEN IF acc # <<>> /\ acc[Len(acc)] # DotDot
                  THEN CleanSegs(rest, rooted, SubSeq(acc, 1, Len(acc) - 1))
                  ELSE IF rooted THEN CleanSegs(rest, rooted, acc)
                  ELSE CleanSegs(rest, rooted, Append(acc, e))
             ELSE CleanSegs(rest, rooted, Append(acc, e))

\* the cleaned elements of p
Elems(p) == CleanSegs(SplitSegs(p), IsAbs(p), <<>>)

\* filepath.Clean
Clean(p) ==
    IF p = <<>> THEN Dot
    ELSE IF IsAbs(p) THEN <<Sep>> \o JoinSegs(Elems(p))
    ELSE IF Elems(p) = <<>> THEN Dot
    ELSE JoinSegs(Elems(p))

\* filepath.Join of two elements
JoinPath(a, b) ==
    IF a = <<>> /\ b = <<>> THEN <<>>
    ELSE IF a = <<>> THEN Clean(b)
    ELSE IF b = <<>> THEN Clean(a)
    ELSE Clean(a \o <<Sep>> \o b)

\* the process's current directory, which filepath.Abs joins a relative path to
\* (os.Getwd is taken to succeed)
Getwd == <<"/", "a">>

\* filepath.Abs
Abs(p) == IF IsAbs(p) THEN Clean(p) ELSE JoinPath(Getwd, p)

\* length of the longest common prefix of two element lists
RECURSIVE CommonLen(_, _)
CommonLen(a, b) ==
    IF a = <<>> \/ b = <<>> \/ Head(a) # Head(b) THEN 0
    ELSE 1 + CommonLen(Tail(a), Tail(b))

\* filepath.Rel for two absolute paths: up from what is left of base, then
\* down what is left of targ
Rel(base, targ) ==
    LET b == Elems(base)
        t == Elems(targ)
        n == CommonLen(b, t)
        ups == [i \in 1..(Len(b) - n) |-> DotDot]
        downs == SubSeq(t, n + 1, Len(t))
    IN  IF Clean(base) = Clean(targ) THEN Dot
        ELSE JoinSegs(ups \o downs)

----------------------------------------------------------------------------
(* ValidatePathSecurity *)

NoPath == <<>>

\* the traversal test on the cleaned path
HasTraversalMutSegment(sanitizedPath) == HasPrefix(sanitizedPath, <<".", ".", Sep>>)
HasTraversal(sanitizedPath) == Contains(sanitizedPath, DotDot)

\* the escape test on the path relative to the working directory
EscapesWorkingDirMutAbsOnly(rel) == HasPrefix(rel, <<Sep>>)
EscapesWorkingDir(rel) == HasPrefix(rel, DotDot) \/ HasPrefix(rel, <<Sep>>)

ValidatePathSecurity(requestedPath, workingDir) ==
    LET sanitizedPath == Clean(requestedPath)
        workingDirAbs == Abs(workingDir)
        finalPath == IF IsAbs(sanitizedPath) THEN sanitizedPath
                     ELSE JoinPath(workingDirAbs, sanitizedPath)
        finalPathAbs == Abs(finalPath)
        rel == Rel(workingDirAbs, finalPathAbs)
    IN  IF HasTraversal(sanitizedPath)
        THEN [path |-> NoPath, err |-> "path traversal not allowed"]
        ELSE IF EscapesWorkingDir(rel)
        THEN [path |-> NoPath, err |-> "path resolves outside working directory"]
        ELSE [path |-> finalPathAbs, err |-> "nil"]

PathChars == {Sep, ".", "a", "w"}
RequestedPaths == SeqsUpTo(PathChars, MaxPathLen)
WorkingDirs == { <<Sep, "w">>, <<Sep>>, <<Sep, "w", Sep, "a">>, <<Sep, "w", Sep>>,
                 <<"w">>, <<>> }

vpInit ==
    /\ vpRequested \in RequestedPaths
    /\ vpWorkingDir \in WorkingDirs
    /\ vpPc = "call"
    /\ vpResult = [path |-> NoPath, err |-> "nil"]

vpValidate ==
    /\ vpPc = "call"
    /\ vpResult' = ValidatePathSecurity(vpRequested, vpWorkingDir)
    /\ vpPc' = "returned"
    /\ UNCHANGED <<vpRequested, vpWorkingDir>>

----------------------------------------------------------------------------
(* Regular expressions of dangerousPatterns (package regexp, RE2 syntax) *)

Lower == {"a", "b", "c", "d", "e", "f", "g", "h", "i", "j", "k", "l", "m",
          "n", "o", "p", "q", "r", "s", "t", "u", "v", "w", "x", "y", "z"}
Upper == {"A", "B", "C", "D", "E", "F", "G", "H", "I", "J", "K", "L", "M",
          "N", "O", "P", "Q", "R", "S", "T", "U", "V", "W", "X", "Y", "Z"}
Digit == {"0", "1", "2", "3", "4", "5", "6", "7", "8", "9"}
\* \w
WordChar == Lower \cup Upper \cup Digit \cup {"_"}
\* \s, and the white space of strings.Fields and strings.TrimSpace
Space == {" ", "\t", "\n", "\r", "\f"}

IsWordAt(s, i) == i >= 1 /\ i <= Len(s) /\ s[i] \in WordChar

\* \b between s[i-1] and s[i]
Boundary(s, i) == IsWordAt(s, i - 1) # IsWordAt(s, i)

\* \bw\b at position i
WordAt(s, w, i) == OccursAt(s, w, i) /\ Boundary(s, i) /\ Boundary(s, i + Len(w))

\* .* matches s[i..j-1]: any characters but a line break
AnyRun(s, i, j) == \A k \in i..(j - 1) : s[k] # "\n"

\* \s* matches s[i..j-1]
SpaceRun(s, i, j) == \A k \in i..(j - 1) : s[k] \in Space

Positions(s) == 1..(Len(s) + 1)

\* \bw\b.*t for a word w and a literal tail t
WordThen(s, w, t) ==
    \E i \in Positions(s) : \E j \in Positions(s) :
        /\ WordAt(s, w, i)
        /\ j >= i + Len(w)
        /\ AnyRun(s, i + Len(w), j)
        /\ OccursAt(s, t, j)

\* \bw\b
HasWord(s, w) == \E i \in Positions(s) : WordAt(s, w, i)

\* c\s*w\b for a character c of class cs
ClassSpaceWord(s, cs, w) ==
    \E i \in Positions(s) : \E j \in Positions(s) :
        /\ i <= Len(s)
        /\ s[i] \in cs
        /\ j >= i + 1
        /\ SpaceRun(s, i + 1, j)
        /\ OccursAt(s, w, j)
        /\ Boundary(s, j + Len(w))

\* \brm\b.*-[rf]
PatRmFlags(s) == WordThen(s, <<"r", "m">>, <<"-", "r">>) \/ WordThen(s, <<"r", "m">>, <<"-", "f">>)
\* \bmv\b.*\.\./
PatMvTraversal(s) == WordThen(s, <<"m", "v">>, <<".", ".", "/">>)
\* \bcp\b.*\.\./
PatCpTraversal(s) == WordThen(s, <<"c", "p">>, <<".", ".", "/">>)
\* \bchmod\b.*777
PatChmod777(s) == WordThen(s, <<"c", "h", "m", "o", "d">>, <<"7", "7", "7">>)
\* \bsu\b|\bsudo\b
PatPrivilege(s) == HasWord(s, <<"s", "u">>) \/ HasWord(s, <<"s", "u", "d", "o">>)
\* [;&|]\s*rm\b
PatChainedRm(s) == ClassSpaceWord(s, {";", "&", "|"}, <<"r", "m">>)
\* \$\(
PatNestedSubstitution(s) == Contains(s, <<"$", "(">>)
\* \beval\b|\bexec\b
PatEvalExec(s) == HasWord(s, <<"e", "v", "a", "l">>) \/ HasWord(s, <<"e", "x", "e", "c">>)
\* >
PatRedirectOut(s) == Contains(s, <<">">>)
\* <
PatRedirectIn(s) == Contains(s, <<"<">>)
\* \|\s*sh\b|\|\s*bash\b
PatPipeShell(s) ==
    \/ ClassSpaceWord(s, {"|"}, <<"s", "h">>)
    \/ ClassSpaceWord(s, {"|"}, <<"b", "a", "s", "h">>)

\* some pattern of dangerousPatterns matches
MatchesDangerous(s) ==
    \/ PatRmFlags(s) \/ PatMvTraversal(s) \/ PatCpTraversal(s) \/ PatChmod777(s)
    \/ PatPrivilege(s) \/ PatChainedRm(s) \/ PatNestedSubstitution(s)
    \/ PatEvalExec(s) \/ PatRedirectOut(s) \/ PatRedirectIn(s) \/ PatPipeShell(s)

----------------------------------------------------------------------------
(* validateCommand *)

\* strings.TrimSpace
RECURSIVE TrimLeft(_)
TrimLeft(s) == IF s # <<>> /\ Head(s) \in Space THEN TrimLeft(Tail(s)) ELSE s

RECURSIVE TrimRight(_)
TrimRight(s) ==
    IF s # <<>> /\ s[Len(s)] \in Space THEN TrimRight(SubSeq(s, 1, Len(s) - 1)) ELSE s

TrimSpace(s) == TrimRight(TrimLeft(s))

\* strings.Fields(s)[0] for a trimmed s that is not empty
RECURSIVE FirstField(_)
FirstField(s) ==
    IF s = <<>> \/ Head(s) \in Space THEN <<>>
    ELSE <<Head(s)>> \o FirstField(Tail(s))

\* the allowlist loop over r.allowedCommands
InAllowlist(baseCommand, allowedCommands) == baseCommand \in allowedCommands

validateCommandMutAllowlistFirst(command, allowCommandSubstitution, allowedCommands) ==
    IF ~allowCommandSubstitution THEN "command substitution is disabled"
    ELSE IF TrimSpace(command) = <<>> THEN "empty command"
    ELSE IF InAllowlist(FirstField(TrimSpace(command)), allowedCommands) THEN "nil"
    ELSE IF MatchesDangerous(command) THEN "dangerous command pattern detected"
    ELSE "not in allowlist"
validateCommand(command, allowCommandSubstitution, allowedCommands) ==
    IF ~allowCommandSubstitution THEN "command substitution is disabled"
    ELSE IF MatchesDangerous(command) THEN "dangerous command pattern detected"
    ELSE IF TrimSpace(command) = <<>> THEN "empty command"
    ELSE IF InAllowlist(FirstField(TrimSpace(command)), allowedCommands) THEN "nil"
    ELSE "not in allowlist"

defaultAllowedCommands == {
    <<"e", "c", "h", "o">>, <<"d", "a", "t", "e">>, <<"w", "h", "o", "a", "m", "i">>,
    <<"p", "w", "d">>, <<"h", "o", "s", "t", "n", "a", "m", "e">>, <<"i", "d">>,
    <<"u", "n", "a", "m", "e">>, <<"g", "i", "t">>, <<"n", "o", "d", "e">>,
    <<"n", "p", "m">>, <<"g", "o">>, <<"p", "y", "t", "h", "o", "n">>,
    <<"p", "y", "t", "h", "o", "n", "3">>, <<"p", "i", "p">>, <<"p", "i", "p", "3">>,
    <<"w", "h", "i", "c", "h">>, <<"w", "h", "e", "r", "e">>,
    <<"c", "o", "m", "m", "a", "n", "d">>, <<"t", "y", "p", "e">> }

\* the commands of TestCommandSubstitutionSecurity and some more of their kind
ExampleCommands == {
    <<"e", "c", "h", "o", " ", "h", "e", "l", "l", "o">>,
    <<"d", "a", "t", "e">>,
    <<"r", "m", " ", "-", "r", "f", " ", "/">>,
    <<"s", "u", "d", "o", " ", "r", "m", " ", "f", "i", "l", "e">>,
    <<"c", "h", "m", "o", "d", " ", "7", "7", "7", " ", "f", "i", "l", "e">>,
    <<"e", "v", "a", "l", " ", "'", "r", "m", " ", "-", "r", "f", " ", "/", "'">>,
    <<"l", "s", ";", " ", "r", "m", " ", "-", "r", "f", " ", "/">>,
    <<"e", "c", "h", "o", " ", "s", "e", "c", "r", "e", "t", " ", ">", " ", "/", "e", "t", "c", "/", "p", "a", "s", "s", "w", "d">>,
    <<"c", "u", "r", "l", " ", "e", "v", "i", "l", ".", "c", "o", "m", " ", "|", " ", "s", "h">>,
    <<"e", "c", "h", "o", " ", "o", "k", ";", " ", "r", "m", " ", "-", "r", "f", " ", "/">>,
    <<"m", "v", " ", "a", " ", ".", ".", "/", "b">>,
    <<"c", "p", " ", ".", ".", "/", "a", " ", "b">>,
    <<"e", "x", "e", "c", " ", "d", "a", "t", "e">>,
    <<"e", "c", "h", "o", " ", "a", " ", "|", " ", "b", "a", "s", "h">>,
    <<"e", "c", "h", "o", " ", "<", " ", "f">>,
    <<"s", "u", " ", "r", "o", "o", "t">>,
    <<"e", "c", "h", "o", " ", "$", "(", "d", "a", "t", "e", ")">>,
    <<"r", "m", "d", "i", "r", " ", "-", "f", " ", "x">>,
    <<"e", "c", "h", "o", " ", "r", "m", "-", "f">>,
    <<"g", "i", "t", " ", "r", "m", " ", "x", " ", "-", "r">> }

\* words that generated commands are made of, joined by single blanks
CommandWords == {
    <<>>,
    <<"e", "c", "h", "o">>,
    <<"e", "c", "h", "o", "x">>,
    <<"o", "k", ";">>,
    <<"r", "m">>,
    <<"-", "r", "f">>,
    <<">">>,
    <<"|", "s", "h">> }

RECURSIVE JoinWords(_)
JoinWords(ws) ==
    IF ws = <<>> THEN <<>>
    ELSE IF Len(ws) = 1 THEN ws[1]
    ELSE ws[1] \o <<" ">> \o JoinWords(Tail(ws))

Commands == ExampleCommands \cup {JoinWords(ws) : ws \in SeqsUpTo(CommandWords, MaxCmdWords)}

Allowlists == { defaultAllowedCommands,
                {<<"r", "m">>, <<"e", "c", "h", "o">>, <<"l", "s">>},
                {} }

vcInit ==
    /\ vcCommand \in Commands
    /\ vcAllow \in BOOLEAN
    /\ vcAllowed \in Allowlists
    /\ vcPc = "call"
    /\ vcResult = "nil"

vcValidate ==
    /\ vcPc = "call"
    /\ vcResult' = validateCommand(vcCommand, vcAllow, vcAllowed)
    /\ vcPc' = "returned"
    /\ UNCHANGED <<vcCommand, vcAllow, vcAllowed>>

----------------------------------------------------------------------------
(* shellVariableResolver.ResolveValue, one loop iteration per step *)

NilRet == [val |-> <<>>, err |-> "nil"]
ErrRet(e) == [val |-> <<>>, err |-> e]

\* env.Get: the empty string for a name that is not set
EnvGet(env, name) == IF name \in DOMAIN env THEN env[name] ELSE <<>>

\* the depth-tracking scan for the parenthesis closing a $( : the position of
\* the ) met at depth 0 from position i on, 0 when there is none
RECURSIVE MatchClose(_, _, _)
MatchClose(s, i, depth) ==
    IF i > Len(s) THEN 0
    ELSE IF s[i] = "(" THEN MatchClose(s, i + 1, depth + 1)
    ELSE IF s[i] = ")"
         THEN IF depth = 0 THEN i ELSE MatchClose(s, i + 1, depth - 1)
    ELSE MatchClose(s, i + 1, depth)

\* a character a $VAR name may start with
NameStart == Lower \cup Upper \cup {"_"}
\* a character a $VAR name may go on with
NameChar == NameStart \cup Digit

\* the position after the $VAR name that starts at position i
RECURSIVE NameEnd(_, _)
NameEnd(s, i) == IF i <= Len(s) /\ s[i] \in NameChar THEN NameEnd(s, i + 1) ELSE i

\* n copies of a tag: where the characters of a replacement come from
Tags(n, tag) == [i \in 1..n |-> tag]

\* result[:start] + replacement + result[end:], end the position after the span
Splice(s, start, endAfter, replacement) ==
    SubSeq(s, 1, start - 1) \o replacement \o Drop(s, endAfter)

\* the special case of a lone $
IsLoneDollarMutAnySingle(value) == Len(value) = 1
IsLoneDollar(value) == value = <<"$">>

\* what the shell may answer to a command: its standard output, or a failure
ShellResults == {
    [stdout |-> <<"b">>, err |-> FALSE],
    [stdout |-> <<" ", "b", "\n">>, err |-> FALSE],
    [stdout |-> <<>>, err |-> FALSE],
    [stdout |-> <<"$", "a">>, err |-> FALSE],
    [stdout |-> <<"$", "(", "a", ")">>, err |-> FALSE],
    [stdout |-> <<>>, err |-> TRUE] }

\* the allowlist given to NewShellVariableResolverWithCommands
rvAllowedCommands == {<<"a">>}

RvChars == {"$", "(", ")", "{", "}", "a", "1"}
RvInputs == SeqsUpTo(RvChars, MaxValueLen)

EnvNone == [n \in {} |-> <<>>]
EnvPlain == [n \in {<<"a">>, <<"1">>} |-> IF n = <<"a">> THEN <<"b">> ELSE <<"c">>]
EnvDollar == [n \in {<<"a">>} |-> <<"$", "a">>]
Envs == {EnvNone, EnvPlain, EnvDollar}

rvInit ==
    /\ rvValue \in RvInputs
    /\ rvAllow \in BOOLEAN
    /\ rvEnv \in Envs
    /\ rvPc = "call"
    /\ rvResult = <<>>
    /\ rvOrigin = <<>>
    /\ rvSearchStart = 1
    /\ rvRet = NilRet
    /\ rvExecs = <<>>
    /\ rvReads = <<>>
    /\ rvPrev = [set |-> FALSE, val |-> <<>>]

rvReturn(ret) ==
    /\ rvPc' = "returned"
    /\ rvRet' = ret

\* lines 115-126: the lone $, the string with no $, and the copy into result
rvEnter ==
    /\ rvPc = "call"
    /\ IF IsLoneDollar(rvValue)
       THEN /\ rvReturn(ErrRet("invalid value format"))
            /\ UNCHANGED <<rvResult, rvOrigin>>
       ELSE IF ~Contains(rvValue, <<"$">>)
       THEN /\ rvReturn([val |-> rvValue, err |-> "nil"])
            /\ UNCHANGED <<rvResult, rvOrigin>>
       ELSE /\ rvPc' = "cmd"
            /\ rvResult' = rvValue
            /\ rvOrigin' = Tags(Len(rvValue), "in")
            /\ UNCHANGED rvRet
    /\ UNCHANGED <<rvValue, rvAllow, rvEnv, rvSearchStart, rvExecs, rvReads, rvPrev>>

\* lines 129-181: one iteration of the command substitution loop
rvCommandStep ==
    /\ rvPc = "cmd"
    /\ LET start == Index(rvResult, <<"$", "(">>)
           end == MatchClose(rvResult, start + 2, 0)
           command == SubSeq(rvResult, start + 2, end - 1)
       IN  IF start = 0
           THEN /\ rvPc' = "var"
                /\ rvSearchStart' = 1
                /\ UNCHANGED <<rvResult, rvOrigin, rvRet, rvExecs>>
           ELSE IF end = 0
           THEN /\ rvReturn(ErrRet("unmatched $("))
                /\ UNCHANGED <<rvResult, rvOrigin, rvSearchStart, rvExecs>>
           ELSE IF validateCommand(command, rvAllow, rvAllowedCommands) # "nil"
           THEN /\ rvReturn(ErrRet("command substitution blocked"))
                /\ UNCHANGED <<rvResult, rvOrigin, rvSearchStart, rvExecs>>
           ELSE /\ Len(rvExecs) < MaxExecs
                /\ \E sh \in ShellResults :
                     /\ rvExecs' = Append(rvExecs, [command |-> command, stdout |-> sh.stdout])
                     /\ IF sh.err
                        THEN /\ rvReturn(ErrRet("command execution failed"))
                             /\ UNCHANGED <<rvResult, rvOrigin>>
                        ELSE LET replacement == TrimSpace(sh.stdout) IN
                             /\ rvResult' = Splice(rvResult, start, end + 1, replacement)
                             /\ rvOrigin' = Splice(rvOrigin, start, end + 1,
                                                   Tags(Len(replacement), "cmd"))
                             /\ UNCHANGED <<rvPc, rvRet>>
                /\ UNCHANGED rvSearchStart
    /\ UNCHANGED <<rvValue, rvAllow, rvEnv, rvReads, rvPrev>>

\* lines 184-240: one iteration of the variable loop
rvVariableStep ==
    /\ rvPc = "var"
    /\ LET start == IndexFrom(rvResult, <<"$">>, rvSearchStart)
           braced == start + 1 <= Len(rvResult) /\ rvResult[start + 1] = "{"
           close == IndexFrom(rvResult, <<"}">>, start + 2)
           end == IF braced THEN close + 1 ELSE NameEnd(rvResult, start + 1)
           varName == IF braced THEN SubSeq(rvResult, start + 2, close - 1)
                      ELSE SubSeq(rvResult, start + 1, end - 1)
           envValue == EnvGet(rvEnv, varName)
       IN  IF start = 0
           THEN /\ rvReturn([val |-> rvResult, err |-> "nil"])
                /\ UNCHANGED <<rvResult, rvOrigin, rvSearchStart, rvReads>>
           ELSE IF start + 1 <= Len(rvResult) /\ rvResult[start + 1] = "("
           THEN /\ rvSearchStart' = start + 1
                /\ UNCHANGED <<rvPc, rvRet, rvResult, rvOrigin, rvReads>>
           ELSE IF braced /\ close = 0
           THEN /\ rvReturn(ErrRet("unmatched ${"))
                /\ UNCHANGED <<rvResult, rvOrigin, rvSearchStart, rvReads>>
           ELSE IF ~braced /\ start + 1 > Len(rvResult)
           THEN /\ rvReturn(ErrRet("incomplete variable reference"))
                /\ UNCHANGED <<rvResult, rvOrigin, rvSearchStart, rvReads>>
           ELSE IF ~braced /\ rvResult[start + 1] \notin NameStart
           THEN /\ rvReturn(ErrRet("invalid variable name"))
                /\ UNCHANGED <<rvResult, rvOrigin, rvSearchStart, rvReads>>
           ELSE /\ rvReads' = Append(rvReads, varName)
                /\ IF envValue = <<>>
                   THEN /\ rvReturn(ErrRet("environment variable not set"))
                        /\ UNCHANGED <<rvResult, rvOrigin, rvSearchStart>>
                   ELSE /\ rvResult' = Splice(rvResult, start, end, envValue)
                        /\ rvOrigin' = Splice(rvOrigin, start, end, Tags(Len(envValue), "env"))
                        /\ rvSearchStart' = start + Len(envValue)
                        /\ UNCHANGED <<rvPc, rvRet>>
    /\ UNCHANGED <<rvValue, rvAllow, rvEnv, rvExecs, rvPrev>>

\* the caller resolves the value it got once more
rvResolveAgain ==
    /\ rvPc = "returned"
    /\ rvRet.err = "nil"
    /\ ~rvPrev.set
    /\ rvPrev' = [set |-> TRUE, val |-> rvRet.val]
    /\ rvValue' = rvRet.val
    /\ rvPc' = "call"
    /\ rvResult' = <<>>
    /\ rvOrigin' = <<>>
    /\ rvSearchStart' = 1
    /\ rvRet' = NilRet
    /\ rvExecs' = <<>>
    /\ rvReads' = <<>>
    /\ UNCHANGED <<rvAllow, rvEnv>>

----------------------------------------------------------------------------
(* SmartPermissionService *)

\* confidenceThreshold, in hundredths
confidenceThreshold == 80

\* the directory the service was constructed for
spWorkingDir == <<Sep, "w">>

\* filepath.Dir(s.learningFile)
learningDir == JoinPath(spWorkingDir, <<".", "c", "r", "u", "s", "h">>)

\* strings.ReplaceAll for a pattern that is not empty
RECURSIVE ReplaceAll(_, _, _)
ReplaceAll(s, old, new) ==
    IF s = <<>> THEN <<>>
    ELSE IF HasPrefix(s, old) THEN new \o ReplaceAll(Drop(s, Len(old) + 1), old, new)
    ELSE <<Head(s)>> \o ReplaceAll(Tail(s), old, new)

\* the table of generalizePattern: each pattern is searched for as the text it
\* is written as (strings.Contains, strings.ReplaceAll)
GeneralizeTable == <<
    [pattern |-> <<"\\", "d", "+">>, replacement |-> <<"*">>],
    [pattern |-> <<"[", "a", "-", "f", "0", "-", "9", "]", "{", "8", ",", "}">>,
     replacement |-> <<"*">>],
    [pattern |-> <<"\\", ".", "t", "m", "p", "\\", "w", "*">>,
     replacement |-> <<".", "t", "m", "p", "*">>],
    [pattern |-> <<"_", "\\", "d", "+", "\\", ".">>, replacement |-> <<"_", "*", ".">>] >>

RECURSIVE GeneralizeFrom(_, _)
GeneralizeFrom(generalized, i) ==
    IF i > Len(GeneralizeTable) THEN generalized
    ELSE LET p == GeneralizeTable[i] IN
         IF Contains(generalized, p.pattern)
         THEN GeneralizeFrom(ReplaceAll(generalized, p.pattern, p.replacement), i + 1)
         ELSE GeneralizeFrom(generalized, i + 1)

generalizePattern(path) ==
    GeneralizeFrom(IF IsAbs(path) THEN Rel(learningDir, path) ELSE path, 1)

getPatternKey(toolName, action, path) ==
    toolName \o <<":">> \o action \o <<":">> \o generalizePattern(path)

\* a confidence is the fraction num/den: approvalRate * sampleSizeBonus *
\* timeDecay in exact arithmetic. The float64 product differs from it in the
\* comparison with 0.8 only where the fraction is 0.8 exactly (8 approvals of
\* 12 and its multiples), which takes denials and more decisions than MaxRequests.
Fraction(num, den) == [num |-> num, den |-> den]
AtLeastThreshold(c) == c.num * 100 >= confidenceThreshold * c.den

\* lines 172-174
AutoApproveEligibleMutNoMinimum(confidence, approvalCount, denialCount) ==
    AtLeastThreshold(confidence) /\ denialCount = 0
AutoApproveEligibleMutDenialsIgnored(confidence, approvalCount, denialCount) ==
    AtLeastThreshold(confidence) /\ approvalCount >= 3
AutoApproveEligible(confidence, approvalCount, denialCount) ==
    AtLeastThreshold(confidence) /\ approvalCount >= 3 /\ denialCount = 0

\* the pattern with Confidence and AutoApprove recomputed; clock is the time
\* time.Since reads, in days. Tenths stand for 1.0, 1.1, 1.2 and 1.0, 0.9, 0.7.
updatePatternConfidence(pattern, clock) ==
    LET total == pattern.ApprovalCount + pattern.DenialCount
        sampleSizeBonus == IF total >= 10 THEN 12 ELSE IF total >= 5 THEN 11 ELSE 10
        daysSinceLastUse == clock - pattern.LastUsed
        timeDecay == IF daysSinceLastUse > 90 THEN 7
                     ELSE IF daysSinceLastUse > 30 THEN 9 ELSE 10
        confidence == Fraction(pattern.ApprovalCount * sampleSizeBonus * timeDecay,
                               total * 100)
    IN  IF total = 0
        THEN [pattern EXCEPT !.Confidence = Fraction(0, 1), !.AutoApprove = FALSE]
        ELSE [pattern EXCEPT
                !.Confidence = confidence,
                !.AutoApprove = AutoApproveEligible(confidence, pattern.ApprovalCount,
                                                    pattern.DenialCount)]

\* the value shouldAutoApprove returns for the table it reads
shouldAutoApproveMutAnyPattern(table, key) == key \in DOMAIN table
shouldAutoApprove(table, key) ==
    /\ key \in DOMAIN table
    /\ table[key].AutoApprove
    /\ AtLeastThreshold(table[key].Confidence)

\* the table after shouldAutoApprove: an existing pattern's LastUsed is refreshed
touchPattern(table, key, clock) ==
    IF key \in DOMAIN table THEN [table EXCEPT ![key].LastUsed = clock] ELSE table

\* the table after learnFromDecision; lastUsed and since are the two clock reads
learnFromDecision(table, opts, approved, lastUsed, since) ==
    LET key == getPatternKey(opts.ToolName, opts.Action, opts.Path)
        pattern == IF key \in DOMAIN table THEN table[key]
                   ELSE [ToolName |-> opts.ToolName, Action |-> opts.Action,
                         PathPattern |-> generalizePattern(opts.Path),
                         ApprovalCount |-> 0, DenialCount |-> 0, LastUsed |-> 0,
                         Confidence |-> Fraction(0, 1), AutoApprove |-> FALSE]
        counted == IF approved
                   THEN [pattern EXCEPT !.ApprovalCount = @ + 1, !.LastUsed = lastUsed]
                   ELSE [pattern EXCEPT !.DenialCount = @ + 1, !.LastUsed = lastUsed]
        learned == updatePatternConfidence(counted, since)
    IN  [k \in DOMAIN table \cup {key} |-> IF k = key THEN learned ELSE table[k]]

ToolNames == {<<"e", "d", "i", "t">>}
Actions == {<<"w", "r", "i", "t", "e">>}
Paths == {<<"f", "1">>, <<Sep, "w", Sep, "f", "2">>}
Requests == [ToolName : ToolNames, Action : Actions, Path : Paths]

\* what may pass between two readings of the clock, in days: nothing, more than
\* 30 days, more than 90 days (the thresholds of timeDecay)
ClockSteps == {0, 31, 91}

EmptyTable == [k \in {} |-> 0]

\* the service as constructed with no pattern file on disk
spInit ==
    /\ enabled \in BOOLEAN
    /\ patterns = EmptyTable
    /\ now = 0
    /\ gateCalls = 0
    /\ lastRequest = [n |-> 0, key |-> <<>>, gateVerdict |-> FALSE, returned |-> FALSE]

\* Request, calls made one after the other. The verdict is the wrapped service's,
\* asked only when it is called.
\* lastRequest keeps, of the latest call, its number, its key, what the wrapped
\* service answered (when asked) and what Request returned.
spRequest ==
    \E opts \in Requests, verdict \in BOOLEAN, step \in ClockSteps :
      LET key == getPatternKey(opts.ToolName, opts.Action, opts.Path) IN
        /\ lastRequest.n < MaxRequests
        /\ IF ~enabled
           THEN /\ gateCalls' = gateCalls + 1
                /\ lastRequest' = [n |-> lastRequest.n + 1, key |-> key,
                                   gateVerdict |-> verdict, returned |-> verdict]
                /\ UNCHANGED <<patterns, now>>
           ELSE IF shouldAutoApprove(patterns, key)
           THEN /\ patterns' = touchPattern(patterns, key, now)
                /\ lastRequest' = [n |-> lastRequest.n + 1, key |-> key,
                                   gateVerdict |-> FALSE, returned |-> TRUE]
                /\ UNCHANGED <<gateCalls, now>>
           ELSE /\ now + step <= MaxDays
                /\ gateCalls' = gateCalls + 1
                /\ patterns' = learnFromDecision(touchPattern(patterns, key, now), opts,
                                                 verdict, now, now + step)
                /\ now' = now + step
                /\ lastRequest' = [n |-> lastRequest.n + 1, key |-> key,
                                   gateVerdict |-> verdict, returned |-> verdict]
        /\ UNCHANGED enabled

\* ClearLearning
spClearLearning ==
    /\ patterns' = EmptyTable
    /\ UNCHANGED <<enabled, now, gateCalls, lastRequest>>

\* time passes between two requests
spTick ==
    /\ \E step \in ClockSteps \ {0} :
         /\ now + step <= MaxDays
         /\ now' = now + step
    /\ UNCHANGED <<enabled, patterns, gateCalls, lastRequest>>

----------------------------------------------------------------------------
(* ResponseCache *)

\* message.Message as far as generateCacheKey reads it: the role and the parts,
\* of which only the text parts are hashed
TextPart(text) == [IsText |-> TRUE, Text |-> text]
OtherPart(text) == [IsText |-> FALSE, Text |-> text]
Message(role, parts) == [Role |-> role, Parts |-> parts]

\* the bytes written to the hasher for the parts of one message
RECURSIVE PartsBytes(_)
PartsBytes(parts) ==
    IF parts = <<>> THEN <<>>
    ELSE (IF Head(parts).IsText THEN Head(parts).Text ELSE <<>>) \o PartsBytes(Tail(parts))

\* the bytes written to the hasher for the messages
RECURSIVE MessagesBytes(_)
MessagesBytes(messages) ==
    IF messages = <<>> THEN <<>>
    ELSE Head(messages).Role \o PartsBytes(Head(messages).Parts)
            \o MessagesBytes(Tail(messages))

\* generateCacheKey: the key stands for the SHA-256 digest of the bytes written
\* to the hasher, so that two requests have the same key exactly when the same
\* bytes are hashed
generateCacheKey(messages, modelID) == modelID \o MessagesBytes(messages)

RoleUser == <<"u", "s", "e", "r">>

\* the requests the cache is asked about: transcript and model ID
CacheRequests == {
    [messages |-> <<Message(RoleUser, <<TextPart(<<"a">>)>>)>>, modelID |-> <<"m">>],
    [messages |-> <<Message(RoleUser, <<TextPart(<<"b">>), OtherPart(<<"c">>)>>)>>,
     modelID |-> <<"m">>],
    [messages |-> <<Message(RoleUser, <<TextPart(<<"a">>)>>)>>, modelID |-> <<"n">>] }

\* message.Message values stored as responses, and token usages
Responses == {"r1", "r2"}
Usages == {[InputTokens |-> 3, OutputTokens |-> 5]}

\* the goroutine that calls Get. Set, Clear and CleanExpired hold the write lock
\* for all they do, so each is one step, taken by any goroutine at any point of
\* a Get
Readers == {1}

NoEntry == [Response |-> "nil", TokenUsage |-> "nil", Timestamp |-> 0, TTL |-> 0]
Miss == [entry |-> NoEntry, ok |-> FALSE]
Hit(entry) == [entry |-> entry, ok |-> TRUE]

EmptyCache == [k \in {} |-> NoEntry]

\* CacheEntry.IsExpired at the time clock
IsExpiredMutAtTTL(entry, clock) == clock - entry.Timestamp >= entry.TTL
IsExpired(entry, clock) == clock - entry.Timestamp > entry.TTL

\* delete(rc.cache, key)
Delete(cache, keys) == [k \in DOMAIN cache \ keys |-> cache[k]]

\* the keys evictOldest may choose: the loop keeps the first entry it meets
\* among those with the least timestamp, and a map is ranged over in any order
OldestKeys(cache) ==
    {k \in DOMAIN cache : \A j \in DOMAIN cache : cache[k].Timestamp <= cache[j].Timestamp}

\* the defaultTTL values the cache is constructed with, in clock units
CacheTTLs == {1, 2}

\* the latest call that changed the cache: a Set with its key and the response
\* it was given, or something else
NoCall == [op |-> "none", key |-> <<>>, response |-> "nil"]
Removal == [op |-> "remove", key |-> <<>>, response |-> "nil"]

\* NewResponseCache(enabled, defaultTTL, maxSize)
rcInit ==
    /\ rcEnabled \in BOOLEAN
    /\ rcMaxSize \in 0..MaxCapacity
    /\ rcTTL \in CacheTTLs
    /\ rcCache = EmptyCache
    /\ rcNow = 0
    /\ rcProc = [g \in Readers |-> [pc |-> "idle", key |-> <<>>, entry |-> NoEntry,
                                    ret |-> Miss]]
    /\ rcCall = NoCall

\* Set: lines 364-387, all of it under the write lock
rcSet ==
    \E req \in CacheRequests, response \in Responses, usage \in Usages :
      LET key == generateCacheKey(req.messages, req.modelID)
          entry == [Response |-> response, TokenUsage |-> usage, Timestamp |-> rcNow,
                    TTL |-> rcTTL]
          full == Cardinality(DOMAIN rcCache) >= rcMaxSize
      IN  /\ rcEnabled
          /\ \E victims \in (IF full /\ DOMAIN rcCache # {}
                              THEN {{k} : k \in OldestKeys(rcCache)} ELSE {{}}) :
                rcCache' = [k \in (DOMAIN rcCache \ victims) \cup {key} |->
                               IF k = key THEN entry ELSE rcCache[k]]
          /\ rcCall' = [op |-> "Set", key |-> key, response |-> response]
          /\ UNCHANGED <<rcEnabled, rcMaxSize, rcTTL, rcNow, rcProc>>

\* Set on a cache that is not enabled: line 365
rcSetDisabled ==
    /\ ~rcEnabled
    /\ UNCHANGED rcVars

\* Get is called: lines 337-341, the key is computed before the lock is taken
rcGetCall(g) ==
    \E req \in CacheRequests :
        /\ rcProc[g].pc = "idle"
        /\ rcProc' = [rcProc EXCEPT ![g] =
              IF rcEnabled
              THEN [pc |-> "lookup", key |-> generateCacheKey(req.messages, req.modelID),
                    entry |-> NoEntry, ret |-> Miss]
              ELSE [pc |-> "idle", key |-> <<>>, entry |-> NoEntry, ret |-> Miss]]
        /\ UNCHANGED <<rcEnabled, rcMaxSize, rcTTL, rcCache, rcNow, rcCall>>

\* Get: lines 343-349, the lookup under the read lock
rcGetLookup(g) ==
    /\ rcProc[g].pc = "lookup"
    /\ rcProc' = [rcProc EXCEPT ![g] =
          IF rcProc[g].key \in DOMAIN rcCache
          THEN [@ EXCEPT !.pc = "check", !.entry = rcCache[rcProc[g].key]]
          ELSE [@ EXCEPT !.pc = "idle", !.ret = Miss]]
    /\ UNCHANGED <<rcEnabled, rcMaxSize, rcTTL, rcCache, rcNow, rcCall>>

\* Get: lines 351 and 359-360, the expiry test on the entry that was read
rcGetCheck(g) ==
    /\ rcProc[g].pc = "check"
    /\ rcProc' = [rcProc EXCEPT ![g] =
          IF IsExpired(rcProc[g].entry, rcNow)
          THEN [@ EXCEPT !.pc = "delete"]
          ELSE [@ EXCEPT !.pc = "idle", !.ret = Hit(rcProc[g].entry)]]
    /\ UNCHANGED <<rcEnabled, rcMaxSize, rcTTL, rcCache, rcNow, rcCall>>

\* Get: lines 352-356, the key is deleted under the write lock
rcGetDelete(g) ==
    /\ rcProc[g].pc = "delete"
    /\ rcCache' = Delete(rcCache, {rcProc[g].key})
    /\ rcCall' = IF rcProc[g].key \in DOMAIN rcCache THEN Removal ELSE rcCall
    /\ rcProc' = [rcProc EXCEPT ![g] = [@ EXCEPT !.pc = "idle", !.ret = Miss]]
    /\ UNCHANGED <<rcEnabled, rcMaxSize, rcTTL, rcNow>>

\* Clear
rcClear ==
    /\ rcCache' = EmptyCache
    /\ rcCall' = Removal
    /\ UNCHANGED <<rcEnabled, rcMaxSize, rcTTL, rcNow, rcProc>>

\* CleanExpired
rcCleanExpired ==
    LET expiredKeys == {k \in DOMAIN rcCache : IsExpired(rcCache[k], rcNow)} IN
    /\ rcCache' = Delete(rcCache, expiredKeys)
    /\ rcCall' = IF expiredKeys = {} THEN rcCall ELSE Removal
    /\ UNCHANGED <<rcEnabled, rcMaxSize, rcTTL, rcNow, rcProc>>

\* time passes: time.Now and time.Since never go back
rcTick ==
    /\ rcNow < MaxClock
    /\ rcNow' = rcNow + 1
    /\ UNCHANGED <<rcEnabled, rcMaxSize, rcTTL, rcCache, rcProc, rcCall>>

----------------------------------------------------------------------------
(* SmartPermissionService: parallel Request calls, savePatterns, loadPatterns *)

\* The patterns map holds pointers: lvTable maps a key to the address of its
\* record in lvHeap, and a snapshot taken by savePatterns holds the same
\* addresses. Address 0 is the nil pointer. lvNil says that the map itself is nil.
\* The two clock readings of one learn update (lines 121 and 160) are taken to
\* be the same instant, so that timeDecay is 1.0 here.
NilAddr == 0
lvClock == 0

\* the goroutines of a parallel batch, each making one Request
Workers == {1, 2, 3}

\* &SmartPermissionPattern{ToolName, Action, PathPattern}: lines 106-110
NewPattern(opts) ==
    [ToolName |-> opts.ToolName, Action |-> opts.Action,
     PathPattern |-> generalizePattern(opts.Path),
     ApprovalCount |-> 0, DenialCount |-> 0, LastUsed |-> 0,
     Confidence |-> Fraction(0, 1), AutoApprove |-> FALSE]

\* the content of the pattern file, as os.ReadFile and json.Unmarshal take it:
\* the records of the keys, and the keys whose value is null. encoding/json
\* writes and reads back the counts, the time and the float64 as they are.
FileMissing == [kind |-> "missing", patterns |-> EmptyTable, nulls |-> {}]
FileUnreadable == [kind |-> "unreadable", patterns |-> EmptyTable, nulls |-> {}]
FileUnparsable == [kind |-> "unparsable", patterns |-> EmptyTable, nulls |-> {}]
FileNull == [kind |-> "null", patterns |-> EmptyTable, nulls |-> {}]
FileTable(records, nulls) == [kind |-> "table", patterns |-> records, nulls |-> nulls]

\* the file a session leaves that learned two approvals of one request
SavedOpts == [ToolName |-> <<"e", "d", "i", "t">>, Action |-> <<"w", "r", "i", "t", "e">>,
              Path |-> <<"f", "1">>]
SavedTable ==
    learnFromDecision(learnFromDecision(EmptyTable, SavedOpts, TRUE, 0, 0),
                      SavedOpts, TRUE, 0, 0)

\* a file with a key whose value is null: {"edit:write:f1": null}
FileNullEntry ==
    FileTable(EmptyTable,
              {getPatternKey(SavedOpts.ToolName, SavedOpts.Action, SavedOpts.Path)})

IdleRequest == [pc |-> "idle", opts |-> SavedOpts, key |-> <<>>, approved |-> FALSE,
                asked |-> FALSE, addr |-> NilAddr, loaded |-> 0, ret |-> FALSE]
NoSave == [pc |-> "none", snap |-> EmptyTable, data |-> EmptyTable, torn |-> FALSE]

\* before NewSmartPermissionService(baseService, workingDir, true)
lvInit(files, workers) ==
    /\ lvPc = "new"
    /\ lvFile \in files
    /\ lvHeap = <<>>
    /\ lvTable = EmptyTable
    /\ lvNil = FALSE
    /\ lvLoaded = EmptyTable
    /\ lvReq = [w \in workers |-> IdleRequest]
    /\ lvSave = [w \in workers |-> NoSave]

\* the keys of a table in some order
RECURSIVE KeySeq(_)
KeySeq(keys) ==
    IF keys = {} THEN <<>>
    ELSE LET k == CHOOSE x \in keys : TRUE IN <<k>> \o KeySeq(keys \ {k})

\* NewSmartPermissionService with loadPatterns: lines 37-51 and 215-235
lvConstruct ==
    /\ lvPc = "new"
    /\ lvPc' = "ready"
    /\ IF lvFile.kind \in {"missing", "unreadable", "unparsable"}
       THEN UNCHANGED <<lvHeap, lvTable, lvNil, lvLoaded>>
       ELSE IF lvFile.kind = "null"
       THEN /\ lvNil' = TRUE
            /\ UNCHANGED <<lvHeap, lvTable, lvLoaded>>
       ELSE LET keys == KeySeq(DOMAIN lvFile.patterns)
                Addr(k) == CHOOSE i \in 1..Len(keys) : keys[i] = k
            IN  /\ lvHeap' = [i \in 1..Len(keys) |-> lvFile.patterns[keys[i]]]
                /\ lvTable' = [k \in DOMAIN lvFile.patterns \cup lvFile.nulls |->
                                  IF k \in lvFile.nulls THEN NilAddr ELSE Addr(k)]
                /\ lvLoaded' = lvFile.patterns
                /\ UNCHANGED lvNil
    /\ UNCHANGED <<lvFile, lvReq, lvSave>>

\* what the process died of, when it did
lvPanicked == lvPc \in {"nil map", "nil pointer"}

\* the goroutines that hold patternsMu: readers are in shouldAutoApprove, the
\* writer is in learnFromDecision (savePatterns takes and releases the read
\* lock within its snapshot step)
lvReadLocked == {w \in DOMAIN lvReq : lvReq[w].pc = "touch"}
lvWriteLocked == {w \in DOMAIN lvReq : lvReq[w].pc \in {"learn", "store"}}

\* patternsMu.RLock() and patternsMu.Lock() return
CanRLock == lvWriteLocked = {}
CanLockMutShared == lvReadLocked = {}
CanLock == lvReadLocked = {} /\ lvWriteLocked = {}

\* the key lookup s.patterns[key]: a nil map has no key
lvExists(key) == ~lvNil /\ key \in DOMAIN lvTable

\* the key of the request of w: getPatternKey gives shouldAutoApprove (line 83)
\* and learnFromDecision (line 102) the same key, kept with the request
lvKey(w) == lvReq[w].key

\* Request is called and shouldAutoApprove has taken the read lock: lines 54-60, 80
lvBegin(w) ==
    \E opts \in Requests :
        /\ lvPc = "ready"
        /\ lvReq[w].pc = "idle"
        /\ CanRLock
        /\ lvReq' = [lvReq EXCEPT ![w] =
              [IdleRequest EXCEPT !.pc = "touch", !.opts = opts,
                  !.key = getPatternKey(opts.ToolName, opts.Action, opts.Path)]]
        /\ UNCHANGED <<lvPc, lvFile, lvHeap, lvTable, lvNil, lvLoaded, lvSave>>

\* shouldAutoApprove under the read lock: lines 83-94, and the return of Request
\* when it is true
lvShouldAutoApprove(w) ==
    /\ lvPc = "ready"
    /\ lvReq[w].pc = "touch"
    /\ LET key == lvKey(w) IN
       IF ~lvExists(key)
       THEN /\ lvReq' = [lvReq EXCEPT ![w].pc = "gate"]
            /\ UNCHANGED <<lvPc, lvHeap>>
       ELSE IF lvTable[key] = NilAddr
       THEN /\ lvPc' = "nil pointer"
            /\ UNCHANGED <<lvReq, lvHeap>>
       ELSE LET addr == lvTable[key]
                pattern == lvHeap[addr]
            IN  /\ lvHeap' = [lvHeap EXCEPT ![addr].LastUsed = lvClock]
                /\ lvReq' = [lvReq EXCEPT ![w] =
                      IF pattern.AutoApprove /\ AtLeastThreshold(pattern.Confidence)
                      THEN [@ EXCEPT !.pc = "done", !.ret = TRUE]
                      ELSE [@ EXCEPT !.pc = "gate"]]
                /\ UNCHANGED lvPc
    /\ UNCHANGED <<lvFile, lvTable, lvNil, lvLoaded, lvSave>>

\* s.Service.Request(opts): line 70
lvGate(w) ==
    \E approved \in BOOLEAN :
        /\ lvPc = "ready"
        /\ lvReq[w].pc = "gate"
        /\ lvReq' = [lvReq EXCEPT ![w] = [@ EXCEPT !.pc = "lock", !.approved = approved,
                                                   !.asked = TRUE]]
        /\ UNCHANGED <<lvPc, lvFile, lvHeap, lvTable, lvNil, lvLoaded, lvSave>>

\* learnFromDecision takes the write lock: line 99
lvLock(w) ==
    /\ lvPc = "ready"
    /\ lvReq[w].pc = "lock"
    /\ CanLock
    /\ lvReq' = [lvReq EXCEPT ![w].pc = "learn"]
    /\ UNCHANGED <<lvPc, lvFile, lvHeap, lvTable, lvNil, lvLoaded, lvSave>>

\* learnFromDecision: lines 102-119 up to the reading of the count that ++ adds to
lvLearn(w) ==
    /\ lvPc = "ready"
    /\ lvReq[w].pc = "learn"
    /\ LET key == lvKey(w)
           Count(pattern) == IF lvReq[w].approved THEN pattern.ApprovalCount
                             ELSE pattern.DenialCount
       IN  IF ~lvExists(key)
           THEN IF lvNil
                THEN /\ lvPc' = "nil map"
                     /\ UNCHANGED <<lvReq, lvHeap, lvTable>>
                ELSE /\ lvHeap' = Append(lvHeap, NewPattern(lvReq[w].opts))
                     /\ lvTable' = [k \in DOMAIN lvTable \cup {key} |->
                                       IF k = key THEN Len(lvHeap) + 1 ELSE lvTable[k]]
                     /\ lvReq' = [lvReq EXCEPT ![w] = [@ EXCEPT !.pc = "store",
                                     !.addr = Len(lvHeap) + 1, !.loaded = 0]]
                     /\ UNCHANGED lvPc
           ELSE IF lvTable[key] = NilAddr
           THEN /\ lvPc' = "nil pointer"
                /\ UNCHANGED <<lvReq, lvHeap, lvTable>>
           ELSE /\ lvReq' = [lvReq EXCEPT ![w] = [@ EXCEPT !.pc = "store",
                                !.addr = lvTable[key],
                                !.loaded = Count(lvHeap[lvTable[key]])]]
                /\ UNCHANGED <<lvPc, lvHeap, lvTable>>
    /\ UNCHANGED <<lvFile, lvNil, lvLoaded, lvSave>>

\* learnFromDecision: lines 115-135, the count is stored, the confidence is
\* computed, savePatterns is started, the lock is released and Request returns
lvStore(w) ==
    /\ lvPc = "ready"
    /\ lvReq[w].pc = "store"
    /\ LET addr == lvReq[w].addr
           counted == IF lvReq[w].approved
                      THEN [lvHeap[addr] EXCEPT !.ApprovalCount = lvReq[w].loaded + 1,
                                                !.LastUsed = lvClock]
                      ELSE [lvHeap[addr] EXCEPT !.DenialCount = lvReq[w].loaded + 1,
                                                !.LastUsed = lvClock]
       IN  lvHeap' = [lvHeap EXCEPT ![addr] = updatePatternConfidence(counted, lvClock)]
    /\ lvSave' = [lvSave EXCEPT ![w] = [NoSave EXCEPT !.pc = "snapshot"]]
    /\ lvReq' = [lvReq EXCEPT ![w] = [@ EXCEPT !.pc = "done", !.ret = lvReq[w].approved]]
    /\ UNCHANGED <<lvPc, lvFile, lvTable, lvNil, lvLoaded>>

\* the file while a writer has opened it with O_TRUNC and written nothing, and
\* the file after writes of two savePatterns calls have overlapped
FileTruncated == [kind |-> "unparsable", patterns |-> EmptyTable, nulls |-> {}]
FileGarbled == [kind |-> "garbled", patterns |-> EmptyTable, nulls |-> {}]

\* the addresses a snapshot points to
SnapAddrs(snap) == {snap[k] : k \in DOMAIN snap} \ {NilAddr}

\* the goroutines about to write a field of the record at addr: in
\* shouldAutoApprove (line 91) and in learnFromDecision (lines 116-121, 169-172)
TouchWriters(addr) ==
    {w \in DOMAIN lvReq : /\ lvReq[w].pc = "touch"
                          /\ lvExists(lvKey(w))
                          /\ lvTable[lvKey(w)] = addr}
StoreWriters(addr) == {w \in DOMAIN lvReq : lvReq[w].pc = "store" /\ lvReq[w].addr = addr}

\* savePatterns: lines 239-244, the map is copied under the read lock
lvSnapshot(s) ==
    /\ lvPc = "ready"
    /\ lvSave[s].pc = "snapshot"
    /\ CanRLock
    /\ lvSave' = [lvSave EXCEPT ![s] = [@ EXCEPT !.pc = "marshal",
                                                 !.snap = IF lvNil THEN EmptyTable ELSE lvTable]]
    /\ UNCHANGED <<lvPc, lvFile, lvHeap, lvTable, lvNil, lvLoaded, lvReq>>

\* savePatterns: lines 247-256, json.MarshalIndent reads the records the
\* snapshot points to, with no lock held; a record that another goroutine is
\* writing may be read half written
lvMarshal(s) ==
    /\ lvPc = "ready"
    /\ lvSave[s].pc = "marshal"
    /\ LET snap == lvSave[s].snap
           raced == \E addr \in SnapAddrs(snap) :
                        TouchWriters(addr) \cup StoreWriters(addr) # {}
       IN  \E torn \in (IF raced THEN BOOLEAN ELSE {FALSE}) :
              lvSave' = [lvSave EXCEPT ![s] = [@ EXCEPT
                            !.pc = "open",
                            !.data = [k \in {j \in DOMAIN snap : snap[j] # NilAddr} |->
                                         lvHeap[snap[k]]],
                            !.torn = torn]]
    /\ UNCHANGED <<lvPc, lvFile, lvHeap, lvTable, lvNil, lvLoaded, lvReq>>

\* savePatterns: os.MkdirAll and the opening of the file by os.WriteFile, which
\* truncates it; either may fail, and savePatterns then returns (lines 247-261)
lvOpen(s) ==
    /\ lvPc = "ready"
    /\ lvSave[s].pc = "open"
    /\ \/ /\ lvFile' = FileTruncated
          /\ lvSave' = [lvSave EXCEPT ![s].pc = "write"]
       \/ /\ lvSave' = [lvSave EXCEPT ![s] = [NoSave EXCEPT !.pc = "failed"]]
          /\ UNCHANGED lvFile
    /\ UNCHANGED <<lvPc, lvHeap, lvTable, lvNil, lvLoaded, lvReq>>

\* the savePatterns calls that have the file open for writing
lvWriting == {s \in DOMAIN lvSave : lvSave[s].pc = "write"}

\* savePatterns: os.WriteFile writes the data and closes the file (line 258).
\* When another call has the file open, or has written since this call opened
\* it, the bytes of the two may be mixed.
lvWrite(s) ==
    /\ lvPc = "ready"
    /\ lvSave[s].pc = "write"
    /\ LET overlapped == lvWriting # {s} \/ lvFile # FileTruncated
           written == IF lvSave[s].torn THEN FileGarbled
                      ELSE FileTable(lvSave[s].data,
                                     DOMAIN lvSave[s].snap \ DOMAIN lvSave[s].data)
       IN  lvFile' \in (IF overlapped THEN {written, FileGarbled} ELSE {written})
    /\ lvSave' = [lvSave EXCEPT ![s] = NoSave]
    /\ UNCHANGED <<lvPc, lvHeap, lvTable, lvNil, lvLoaded, lvReq>>

----------------------------------------------------------------------------
(* getPatternKey on two requests of the same tool and action *)

\* paths of the kinds generalizePattern is written for, and paths that contain
\* the text of one of its patterns
KeyPaths == {
    <<"f", "1">>,
    <<"f", "2", "2">>,
    <<Sep, "w", Sep, "f", "1">>,
    <<"d", "e", "a", "d", "b", "e", "e", "f">>,
    <<"c", "a", "f", "e", "f", "a", "c", "e", "d">>,
    <<"x", ".", "t", "m", "p", "a">>,
    <<"x", ".", "t", "m", "p", "b", "b">>,
    <<"v", "_", "1", ".", "g", "o">>,
    <<"v", "_", "2", "3", ".", "g", "o">>,
    <<"f", "\\", "d", "+">>,
    <<"x", "\\", ".", "t", "m", "p", "\\", "w", "*">>,
    <<"g", "o">> }

kpInit ==
    /\ kpPathA \in KeyPaths
    /\ kpPathB \in KeyPaths
    /\ kpPc = "call"
    /\ kpKeys = <<>>

\* the keys of the two requests
kpGetPatternKeys ==
    /\ kpPc = "call"
    /\ \E toolName \in ToolNames, action \in Actions :
          kpKeys' = <<getPatternKey(toolName, action, kpPathA),
                      getPatternKey(toolName, action, kpPathB)>>
    /\ kpPc' = "returned"
    /\ UNCHANGED <<kpPathA, kpPathB>>

----------------------------------------------------------------------------
(* ResolveValue while the command of an accepted $(...) runs, in minutes *)

\* 5*time.Minute, the timeout of the context given to Shell.Exec
ExecTimeout == 5

\* the context of the execution is made from context.Background() with the
\* timeout only: it is done when the timeout has passed, whatever the caller's
\* context is
CtxDone(elapsed, callerCancelled) == elapsed >= ExecTimeout

\* Shell.Exec(ctx, command): returns the output or the failure of the command
\* when the command ends, and an error as soon as ctx is done
ShellExec(elapsed, ctxDone) ==
    (IF ctxDone THEN {"error"} ELSE {})
    \cup (IF elapsed = exDuration
          THEN {IF exFails THEN "error" ELSE "output"}
          ELSE {})

\* the command needs exDuration minutes and ends with or without an error
exInit ==
    /\ exPc = "call"
    /\ exDuration \in 0..MaxDuration
    /\ exFails \in BOOLEAN
    /\ exElapsed = 0
    /\ exCancelled = FALSE
    /\ exCancelAt = 0
    /\ exRet = "none"

\* ctx, cancel := context.WithTimeout(...); r.shell.Exec(ctx, command) is entered
exBegin ==
    /\ exPc = "call"
    /\ exPc' = "exec"
    /\ UNCHANGED <<exDuration, exFails, exElapsed, exCancelled, exCancelAt, exRet>>

\* a minute passes while Shell.Exec has no reason to return
exTick ==
    /\ exPc = "exec"
    /\ ShellExec(exElapsed, CtxDone(exElapsed, exCancelled)) = {}
    /\ exElapsed' = exElapsed + 1
    /\ UNCHANGED <<exPc, exDuration, exFails, exCancelled, exCancelAt, exRet>>

\* the context of the caller of ResolveValue is cancelled or times out
exCallerCancel ==
    /\ exPc = "exec"
    /\ ~exCancelled
    /\ exCancelled' = TRUE
    /\ exCancelAt' = exElapsed
    /\ UNCHANGED <<exPc, exDuration, exFails, exElapsed, exRet>>

\* Shell.Exec returns: on an error ResolveValue returns the error, otherwise
\* the trimmed output replaces the $(...)
exReturn ==
    /\ exPc = "exec"
    /\ \E outcome \in ShellExec(exElapsed, CtxDone(exElapsed, exCancelled)) :
          exRet' = outcome
    /\ exPc' = "returned"
    /\ UNCHANGED <<exDuration, exFails, exElapsed, exCancelled, exCancelAt>>

----------------------------------------------------------------------------
(* CostEstimator.ShouldProceed *)

\* float64 values: numbers, the infinities and NaN
Num(n) == [kind |-> "num", n |-> n]
PosInf == [kind |-> "+Inf", n |-> 0]
NegInf == [kind |-> "-Inf", n |-> 0]
NaN == [kind |-> "NaN", n |-> 0]
Floats == {Num(n) : n \in (0 - 1)..MaxCost} \cup {PosInf, NegInf, NaN}

\* a >= b on float64, the mutation of the comparison of ShouldProceed
FloatGtMutOrEqual(a, b) ==
    /\ a.kind # "NaN" /\ b.kind # "NaN"
    /\ \/ a.kind = "+Inf"
       \/ b.kind = "-Inf"
       \/ a.kind = "num" /\ b.kind = "num" /\ a.n >= b.n
\* a > b on float64: false when either is NaN
FloatGt(a, b) ==
    /\ a.kind # "NaN" /\ b.kind # "NaN"
    /\ \/ a.kind = "+Inf" /\ b.kind # "+Inf"
       \/ b.kind = "-Inf" /\ a.kind # "-Inf"
       \/ a.kind = "num" /\ b.kind = "num" /\ a.n > b.n

ShouldProceed(estimatedCost, maxCostThreshold) ==
    IF FloatGt(estimatedCost, maxCostThreshold)
    THEN [proceed |-> FALSE, reason |-> "Estimated cost exceeds threshold"]
    ELSE [proceed |-> TRUE, reason |-> ""]

\* NewCostEstimator(maxCostThreshold)
ceInit ==
    /\ ceThreshold \in Floats
    /\ ceCalls = <<>>

\* one call of ShouldProceed, kept with its answer
ceShouldProceed ==
    /\ Len(ceCalls) < MaxCalls
    /\ \E estimatedCost \in Floats :
          ceCalls' = Append(ceCalls, [cost |-> estimatedCost,
                                      ret |-> ShouldProceed(estimatedCost, ceThreshold)])
    /\ UNCHANGED ceThreshold

----------------------------------------------------------------------------
(* generateCacheKey on two requests *)

NoRequest == [messages |-> <<>>, modelID |-> <<>>]

\* transcripts of one or two user messages with text parts and parts that are
\* no text (a tool call, a tool result), for two model IDs
KeyTranscripts == {
    <<Message(RoleUser, <<TextPart(<<"a", "b">>)>>)>>,
    <<Message(RoleUser, <<TextPart(<<"a">>), TextPart(<<"b">>)>>)>>,
    <<Message(RoleUser, <<TextPart(<<"b">>), TextPart(<<"a">>)>>)>>,
    <<Message(RoleUser, <<TextPart(<<"a", "b">>), OtherPart(<<"c">>)>>)>>,
    <<Message(RoleUser, <<TextPart(<<"a", "b">>), OtherPart(<<"d">>)>>)>>,
    <<Message(RoleUser, <<TextPart(<<"a">>)>>), Message(RoleUser, <<TextPart(<<"b">>)>>)>>,
    <<Message(RoleUser, <<TextPart(<<"a">> \o RoleUser \o <<"b">>)>>)>>,
    <<Message(RoleUser, <<TextPart(RoleUser \o <<"b">>)>>)>>,
    <<Message(RoleUser, <<TextPart(<<"b">>)>>)>> }
KeyModelIDs == {<<"m">>, <<"m">> \o RoleUser}
KeyRequests == [messages : KeyTranscripts, modelID : KeyModelIDs]

ckInit ==
    /\ ckReqA \in KeyRequests
    /\ ckReqB \in KeyRequests
    /\ ckPc = "call"
    /\ ckKeys = <<>>

\* the keys of the two requests
ckGenerateCacheKeys ==
    /\ ckPc = "call"
    /\ ckKeys' = <<generateCacheKey(ckReqA.messages, ckReqA.modelID),
                   generateCacheKey(ckReqB.messages, ckReqB.modelID)>>
    /\ ckPc' = "returned"
    /\ UNCHANGED <<ckReqA, ckReqB>>

----------------------------------------------------------------------------
(* ClearLearning while requests and saves are running *)

\* ClearLearning: lines 292-294, a new empty map under the write lock
lvClearLearning ==
    /\ lvPc = "ready"
    /\ clPc = "call"
    /\ CanLock
    /\ lvTable' = EmptyTable
    /\ lvNil' = FALSE
    /\ clPc' = "remove"
    /\ UNCHANGED <<lvPc, lvFile, lvHeap, lvLoaded, lvReq, lvSave>>

\* ClearLearning: lines 296-301, os.Remove of the pattern file. A savePatterns
\* that has the file open goes on writing to the file that has lost its name.
lvClearRemove ==
    /\ clPc = "remove"
    /\ \/ /\ lvFile' = FileMissing
          /\ lvSave' = [s \in DOMAIN lvSave |->
                           IF lvSave[s].pc = "write"
                           THEN [lvSave[s] EXCEPT !.pc = "unlinked"]
                           ELSE lvSave[s]]
          /\ clPc' = "done"
       \/ /\ clPc' = "failed"
          /\ UNCHANGED <<lvFile, lvSave>>
    /\ UNCHANGED <<lvPc, lvHeap, lvTable, lvNil, lvLoaded, lvReq>>

\* savePatterns: os.WriteFile ends on a file that was removed while it was open
lvWriteUnlinked(s) ==
    /\ lvSave[s].pc = "unlinked"
    /\ lvSave' = [lvSave EXCEPT ![s] = NoSave]
    /\ UNCHANGED <<lvPc, lvFile, lvHeap, lvTable, lvNil, lvLoaded, lvReq, clPc>>

----------------------------------------------------------------------------
(* FeedbackMechanism.EvaluateResponse (internal/llm/agent/feedback.go) *)

\* strings.ToLower on ASCII letters
UpperLetters == <<"A", "B", "C", "D", "E", "F", "G", "H", "I", "J", "K", "L", "M",
                  "N", "O", "P", "Q", "R", "S", "T", "U", "V", "W", "X", "Y", "Z">>
LowerLetters == <<"a", "b", "c", "d", "e", "f", "g", "h", "i", "j", "k", "l", "m",
                  "n", "o", "p", "q", "r", "s", "t", "u", "v", "w", "x", "y", "z">>
ToLower(s) ==
    [i \in 1..Len(s) |->
        IF s[i] \in Upper
        THEN LowerLetters[CHOOSE j \in 1..Len(UpperLetters) : UpperLetters[j] = s[i]]
        ELSE s[i]]

\* strings.Fields: the words between runs of white space
RECURSIVE Fields(_)
Fields(s) ==
    LET t == TrimLeft(s) IN
    IF t = <<>> THEN <<>>
    ELSE LET w == FirstField(t) IN <<w>> \o Fields(Drop(t, Len(w) + 1))

\* strings.Count: the occurrences of sub in s that do not overlap
RECURSIVE Count(_, _)
Count(s, sub) ==
    IF Len(s) < Len(sub) THEN 0
    ELSE IF HasPrefix(s, sub) THEN 1 + Count(Drop(s, Len(sub) + 1), sub)
    ELSE Count(Tail(s), sub)

\* the number of entries of a list that occur in the text
ContainedCount(text, list) == Cardinality({i \in DOMAIN list : Contains(text, list[i])})

\* the sum of strings.Count over a list
RECURSIVE CountAll(_, _)
CountAll(text, list) ==
    IF list = <<>> THEN 0 ELSE Count(text, Head(list)) + CountAll(text, Tail(list))

\* strings.Join(texts, "\n")
RECURSIVE JoinLines(_)
JoinLines(texts) ==
    IF texts = <<>> THEN <<>>
    ELSE IF Len(texts) = 1 THEN texts[1]
    ELSE texts[1] \o <<"\n">> \o JoinLines(Tail(texts))

\* extractTextContent: the texts of the TextContent parts, joined by newlines
RECURSIVE TextsOf(_)
TextsOf(parts) ==
    IF parts = <<>> THEN <<>>
    ELSE (IF Head(parts).IsText THEN <<Head(parts).Text>> ELSE <<>>) \o TextsOf(Tail(parts))
extractTextContent(msg) == JoinLines(TextsOf(msg.Parts))

incompleteIndicators == <<
    <<"i", " ", "n", "e", "e", "d", " ", "m", "o", "r", "e", " ", "i", "n", "f", "o", "r", "m", "a", "t", "i", "o", "n">>,
    <<"c", "o", "u", "l", "d", " ", "y", "o", "u", " ", "c", "l", "a", "r", "i", "f", "y">>,
    <<"i", "n", "c", "o", "m", "p", "l", "e", "t", "e">>,
    <<"n", "o", "t", " ", "e", "n", "o", "u", "g", "h", " ", "c", "o", "n", "t", "e", "x", "t">>,
    <<"u", "n", "a", "b", "l", "e", " ", "t", "o", " ", "d", "e", "t", "e", "r", "m", "i", "n", "e">> >>

clarityIndicators == <<
    <<"f", "i", "r", "s", "t">>,
    <<"s", "e", "c", "o", "n", "d">>,
    <<"t", "h", "e", "n">>,
    <<"n", "e", "x", "t">>,
    <<"f", "i", "n", "a", "l", "l", "y">>,
    <<"h", "o", "w", "e", "v", "e", "r">>,
    <<"t", "h", "e", "r", "e", "f", "o", "r", "e">>,
    <<"b", "e", "c", "a", "u", "s", "e">>,
    <<"s", "i", "n", "c", "e">> >>

vagueTerms == <<
    <<"m", "a", "y", "b", "e">>,
    <<"p", "e", "r", "h", "a", "p", "s">>,
    <<"m", "i", "g", "h", "t">>,
    <<"c", "o", "u", "l", "d", " ", "b", "e">>,
    <<"p", "o", "s", "s", "i", "b", "l", "y">>,
    <<"g", "e", "n", "e", "r", "a", "l", "l", "y">>,
    <<"u", "s", "u", "a", "l", "l", "y">>,
    <<"o", "f", "t", "e", "n">>,
    <<"s", "o", "m", "e", "t", "i", "m", "e", "s">>,
    <<"i", "t", " ", "d", "e", "p", "e", "n", "d", "s">>,
    <<"v", "a", "r", "i", "e", "s">>,
    <<"d", "i", "f", "f", "e", "r", "e", "n", "t">> >>

specificIndicators == <<
    <<"s", "t", "e", "p", " ", "1">>,
    <<"s", "t", "e", "p", " ", "2">>,
    <<"s", "p", "e", "c", "i", "f", "i", "c", "a", "l", "l", "y">>,
    <<"e", "x", "a", "c", "t", "l", "y">>,
    <<"r", "u", "n", " ", "t", "h", "e", " ", "f", "o", "l", "l", "o", "w", "i", "n", "g">>,
    <<"e", "x", "e", "c", "u", "t", "e">>,
    <<"u", "s", "e", " ", "t", "h", "i", "s", " ", "c", "o", "m", "m", "a", "n", "d">>,
    <<"s", "e", "t", " ", "t", "o">>,
    <<"c", "o", "n", "f", "i", "g", "u", "r", "e">>,
    <<"i", "n", "s", "t", "a", "l", "l">> >>

errorIndicators == <<
    <<"i", " ", "a", "p", "o", "l", "o", "g", "i", "z", "e", ",", " ", "b", "u", "t">>,
    <<"i", "'", "m", " ", "s", "o", "r", "r", "y", ",", " ", "i", " ", "c", "a", "n", "'", "t">>,
    <<"e", "r", "r", "o", "r">>,
    <<"f", "a", "i", "l", "e", "d">>,
    <<"u", "n", "a", "b", "l", "e", " ", "t", "o">>,
    <<"n", "o", "t", " ", "p", "o", "s", "s", "i", "b", "l", "e">>,
    <<"d", "o", "e", "s", "n", "'", "t", " ", "e", "x", "i", "s", "t">>,
    <<"n", "o", "t", " ", "f", "o", "u", "n", "d">>,
    <<"i", "n", "v", "a", "l", "i", "d">> >>

\* The metrics are float64 values in [0, 1]: completeness, clarity, specificity
\* and error_indicators are kept in tenths, relevance as a fraction.

\* calculateCompleteness without the test of the ratio of the word counts
calculateCompletenessMutNoRatio(userText, responseText) ==
    IF responseText = <<>> THEN 0
    ELSE IF ContainedCount(ToLower(responseText), incompleteIndicators) > 0 THEN 4
    ELSE 8
calculateCompleteness(userText, responseText) ==
    IF responseText = <<>> THEN 0
    ELSE LET userWords == Len(Fields(userText))
             responseWords == Len(Fields(responseText))
         IN  IF userWords > 0 /\ 2 * responseWords < userWords THEN 3
             ELSE IF userWords > 0 /\ responseWords > 10 * userWords THEN 7
             ELSE IF ContainedCount(ToLower(responseText), incompleteIndicators) > 0 THEN 4
             ELSE 8

calculateClarity(responseText) ==
    IF responseText = <<>> THEN 0
    ELSE LET words == Len(Fields(responseText))
             sentences == Count(responseText, <<".">>) + 1
             long == words > 25 * sentences
             indicatorCount == ContainedCount(ToLower(responseText), clarityIndicators)
             clarityScore == 8 - (IF long THEN 2 ELSE 0)
                               + (IF indicatorCount > 2 THEN 1 ELSE 0)
         IN  IF clarityScore < 10 THEN clarityScore ELSE 10

\* the words of more than three bytes
MeaningfulWords(words) == {i \in DOMAIN words : Len(words[i]) > 3}

calculateRelevance(userText, responseText) ==
    IF responseText = <<>> THEN Fraction(0, 1)
    ELSE LET userWords == Fields(ToLower(userText))
             responseWords == Fields(ToLower(responseText))
             userWordSet == {userWords[i] : i \in MeaningfulWords(userWords)}
             overlap == Cardinality({i \in MeaningfulWords(responseWords) :
                                        responseWords[i] \in userWordSet})
         IN  IF userWordSet = {} THEN Fraction(1, 2)
             ELSE IF overlap < Cardinality(userWordSet)
             THEN Fraction(overlap, Cardinality(userWordSet))
             ELSE Fraction(1, 1)

calculateSpecificity(responseText) ==
    IF responseText = <<>> THEN 0
    ELSE LET text == ToLower(responseText)
             vaguenessCount == CountAll(text, vagueTerms)
             specificityCount == ContainedCount(text, specificIndicators)
             specificityScore == 5 - (IF vaguenessCount > 3 THEN 3 ELSE 0)
                                   + (IF specificityCount > 0 THEN 3 ELSE 0)
         IN  IF specificityScore < 0 THEN 0
             ELSE IF specificityScore < 10 THEN specificityScore ELSE 10

detectErrorIndicators(responseText) ==
    LET errorCount == ContainedCount(ToLower(responseText), errorIndicators)
    IN  IF 10 - 2 * errorCount > 0 THEN 10 - 2 * errorCount ELSE 0

\* a float64 result: the exact value num/den, and the rounding error of the
\* float64 operations that gave it, whose sign is all that a comparison sees
Rounded(num, den, ulp) == [num |-> num, den |-> den, ulp |-> ulp]

\* calculateOverallScore: totalScore / totalWeight over the five metrics; the
\* sums are taken in the order of a range over a map, on which the rounding of
\* the result depends
calculateOverallScore(metrics, ulp) ==
    LET den == metrics.relevance.den
        totalScore == den * (30 * metrics.completeness + 20 * metrics.clarity
                             + 15 * metrics.specificity + 10 * metrics.error_indicators)
                      + 250 * metrics.relevance.num
        totalWeight == 30 + 20 + 25 + 15 + 10
    IN  Rounded(totalScore * 100, 1000 * den * totalWeight, ulp)

\* calculateMetricsVariance > 0.3, on the metrics as multiples of 1/(10 den)
VarianceAboveLimit(metrics) ==
    LET den == metrics.relevance.den
        a == <<den * metrics.completeness, den * metrics.clarity,
               10 * metrics.relevance.num, den * metrics.specificity,
               den * metrics.error_indicators>>
        sum == a[1] + a[2] + a[3] + a[4] + a[5]
        Sq(x) == x * x
        squares == Sq(5 * a[1] - sum) + Sq(5 * a[2] - sum) + Sq(5 * a[3] - sum)
                   + Sq(5 * a[4] - sum) + Sq(5 * a[5] - sum)
    IN  10 * squares > 37500 * den * den

\* calculateConfidence, in tenths
calculateConfidence(metrics, responseText) ==
    LET wordCount == Len(Fields(responseText))
        confidence == 5 + (IF wordCount > 50 THEN 2 ELSE 0)
                        + (IF wordCount > 200 THEN 1 ELSE 0)
                        - (IF VarianceAboveLimit(metrics) THEN 2 ELSE 0)
    IN  IF confidence > 9 THEN 9 ELSE IF confidence < 1 THEN 1 ELSE confidence

\* analyzeIssues: the issues appended, in order
analyzeIssues(metrics) ==
    (IF metrics.completeness < 6 THEN <<"Response may be incomplete">> ELSE <<>>)
    \o (IF metrics.clarity < 6 THEN <<"Response may be unclear">> ELSE <<>>)
    \o (IF 2 * metrics.relevance.num < metrics.relevance.den
        THEN <<"Response may not be relevant to the request">> ELSE <<>>)
    \o (IF metrics.specificity < 5 THEN <<"Response is too vague">> ELSE <<>>)
    \o (IF metrics.error_indicators < 8
        THEN <<"Response contains error indicators">> ELSE <<>>)

\* quality.Score <= fm.minQualityThreshold, the threshold in hundredths
ScoreBelowMutOrEqual(score, threshold) ==
    \/ score.num * 100 < threshold * score.den
    \/ score.num * 100 = threshold * score.den /\ score.ulp <= 0
\* quality.Score < fm.minQualityThreshold
ScoreBelow(score, threshold) ==
    \/ score.num * 100 < threshold * score.den
    \/ score.num * 100 = threshold * score.den /\ score.ulp < 0

NoMetrics == [m \in {} |-> 0]
NoQuality == [Score |-> Rounded(0, 1, 0), Confidence |-> 0, Issues |-> <<>>,
              RequiresRetry |-> FALSE, Metrics |-> NoMetrics]

EvaluateResponse(isEnabled, minQualityThreshold, userMessage, response, ulp) ==
    IF ~isEnabled
    THEN [Score |-> Rounded(1, 1, 0), Confidence |-> 5, Issues |-> <<>>,
          RequiresRetry |-> FALSE, Metrics |-> NoMetrics]
    ELSE LET responseText == extractTextContent(response)
             userText == extractTextContent(userMessage)
             metrics == [completeness |-> calculateCompleteness(userText, responseText),
                         clarity |-> calculateClarity(responseText),
                         relevance |-> calculateRelevance(userText, responseText),
                         specificity |-> calculateSpecificity(responseText),
                         error_indicators |-> detectErrorIndicators(responseText)]
             score == calculateOverallScore(metrics, ulp)
         IN  [Score |-> score,
              Confidence |-> calculateConfidence(metrics, responseText),
              Issues |-> analyzeIssues(metrics),
              RequiresRetry |-> ScoreBelow(score, minQualityThreshold),
              Metrics |-> metrics]

\* a request of 50 words of which none has more than three bytes
UserFiftyShort ==
    <<"d", "o", " ", "i", "t", " ", "n", "o", "w", " ", "o", "k", " ", "s",
      "o", " ", "d", "o", " ", "i", "t", " ", "n", "o", "w", " ", "o", "k",
      " ", "s", "o", " ", "d", "o", " ", "i", "t", " ", "n", "o", "w", " ",
      "o", "k", " ", "s", "o", " ", "d", "o", " ", "i", "t", " ", "n", "o",
      "w", " ", "o", "k", " ", "s", "o", " ", "d", "o", " ", "i", "t", " ",
      "n", "o", "w", " ", "o", "k", " ", "s", "o", " ", "d", "o", " ", "i",
      "t", " ", "n", "o", "w", " ", "o", "k", " ", "s", "o", " ", "d", "o",
      " ", "i", "t", " ", "n", "o", "w", " ", "o", "k", " ", "s", "o", " ",
      "d", "o", " ", "i", "t", " ", "n", "o", "w", " ", "o", "k", " ", "s",
      "o", " ", "d", "o", " ", "i", "t", " ", "n", "o", "w", " ", "o", "k",
      " ", "s", "o", " ", "d", "o", " ", "i", "t", " ", "n", "o", "w", " ",
      "o", "k", " ", "s", "o">>
\* a request of 50 words whose long words are those of the reply "I don't know"
UserFiftyKnow ==
    <<"k", "n", "o", "w", " ", "d", "o", "n", "'", "t", " ", "d", "o", " ",
      "i", "t", " ", "n", "o", "w", " ", "d", "o", " ", "i", "t", " ", "n",
      "o", "w", " ", "d", "o", " ", "i", "t", " ", "n", "o", "w", " ", "d",
      "o", " ", "i", "t", " ", "n", "o", "w", " ", "d", "o", " ", "i", "t",
      " ", "n", "o", "w", " ", "d", "o", " ", "i", "t", " ", "n", "o", "w",
      " ", "d", "o", " ", "i", "t", " ", "n", "o", "w", " ", "d", "o", " ",
      "i", "t", " ", "n", "o", "w", " ", "d", "o", " ", "i", "t", " ", "n",
      "o", "w", " ", "d", "o", " ", "i", "t", " ", "n", "o", "w", " ", "d",
      "o", " ", "i", "t", " ", "n", "o", "w", " ", "d", "o", " ", "i", "t",
      " ", "n", "o", "w", " ", "d", "o", " ", "i", "t", " ", "n", "o", "w",
      " ", "d", "o", " ", "i", "t", " ", "n", "o", "w", " ", "d", "o", " ",
      "i", "t", " ", "n", "o", "w", " ", "d", "o", " ", "i", "t", " ", "n",
      "o", "w">>
UserFour ==
    <<"d", "o", " ", "i", "t", " ", "n", "o", "w", " ", "o", "k">>
UserCode ==
    <<"F", "i", "x", " ", "t", "h", "i", "s", " ", "c", "o", "d", "e", " ",
      "p", "l", "e", "a", "s", "e">>
UserSix ==
    <<"p", "l", "e", "a", "s", "e", " ", "i", "n", "s", "t", "a", "l", "l",
      " ", "t", "h", "i", "s", " ", "c", "o", "d", "e", " ", "t", "h", "e",
      "n", " ", "r", "u", "n">>
ReplyDontKnow ==
    <<"I", " ", "d", "o", "n", "'", "t", " ", "k", "n", "o", "w">>
ReplySteps ==
    <<"f", "i", "r", "s", "t", " ", "t", "h", "e", "n", " ", "n", "e", "x",
      "t">>
ReplyPlain ==
    <<"i", "t", " ", "i", "s", " ", "s", "o">>
ReplyCode ==
    <<"t", "h", "i", "s", " ", "c", "o", "d", "e", " ", "w", "o", "r", "k",
      "s", ".", " ", "b", "e", "c", "a", "u", "s", "e", " ", "f", "i", "r",
      "s", "t", " ", "r", "u", "n", " ", "t", "h", "e", " ", "f", "o", "l",
      "l", "o", "w", "i", "n", "g", " ", "t", "h", "e", "n", " ", "i", "n",
      "s", "t", "a", "l", "l", " ", "i", "t", " ", "f", "i", "n", "a", "l",
      "l", "y">>
ReplyErrors ==
    <<"e", "r", "r", "o", "r", " ", "n", "o", "t", " ", "f", "o", "u", "n",
      "d", ".", " ", "f", "a", "i", "l", "e", "d", " ", "i", "n", "v", "a",
      "l", "i", "d">>
ReplyVague ==
    <<"m", "a", "y", "b", "e", " ", "p", "e", "r", "h", "a", "p", "s", " ",
      "i", "t", " ", "m", "i", "g", "h", "t", " ", "p", "o", "s", "s", "i",
      "b", "l", "y", " ", "w", "o", "r", "k", " ", "s", "o", "m", "e", "t",
      "i", "m", "e", "s">>
ReplyClarify ==
    <<"c", "o", "u", "l", "d", " ", "y", "o", "u", " ", "c", "l", "a", "r",
      "i", "f", "y", " ", "t", "h", "i", "s", " ", "c", "o", "d", "e">>

RoleAssistant == <<"a", "s", "s", "i", "s", "t", "a", "n", "t">>

\* the requests and the replies evaluated; a reply may have its text in two
\* parts, a part that is no text, or no text at all
UserMessages ==
    {Message(RoleUser, <<TextPart(t)>>) :
        t \in {UserFiftyShort, UserFiftyKnow, UserFour, UserCode, UserSix, <<>>}}
ResponseMessages ==
    {Message(RoleAssistant, <<TextPart(t)>>) :
        t \in {ReplyDontKnow, ReplySteps, ReplyPlain, ReplyCode, ReplyErrors, ReplyVague,
               ReplyClarify}}
    \cup {Message(RoleAssistant, <<TextPart(<<"I">>), OtherPart(<<"c">>),
                                   TextPart(<<"d", "o", "n", "'", "t", " ", "k", "n", "o", "w">>)>>),
          Message(RoleAssistant, <<OtherPart(<<"c">>)>>)}

\* the thresholds the mechanism is constructed with, in hundredths
QualityThresholds == {0, 50, 70, 100}

\* the signs of the rounding error of a float64 result
Roundings == {0 - 1, 0, 1}

\* NewFeedbackMechanism(enabled, minQualityThreshold, maxRetryAttempts) and the
\* messages of one call
fbInit ==
    /\ fbEnabled \in BOOLEAN
    /\ fbThreshold \in QualityThresholds
    /\ fbUser \in UserMessages
    /\ fbResponse \in ResponseMessages
    /\ fbPc = "call"
    /\ fbRet = NoQuality

fbEvaluateResponse ==
    /\ fbPc = "call"
    /\ \E ulp \in Roundings :
          fbRet' = EvaluateResponse(fbEnabled, fbThreshold, fbUser, fbResponse,
                                    IF fbEnabled THEN ulp ELSE 0)
    /\ fbPc' = "returned"
    /\ UNCHANGED <<fbEnabled, fbThreshold, fbUser, fbResponse>>

----------------------------------------------------------------------------
(* CostEstimator.OptimizeMessages (src/unnamed/part_001, lines 63-180) *)

\* the most messages of a transcript
MaxMessages == 7

\* a text is kept by its runs: <<c, n>> is n times the byte c, and two
\* neighbouring runs never have the same byte
Run(c, n) == <<c, n>>

RECURSIVE TextLen(_)
\* len(text)
TextLen(t) == IF t = <<>> THEN 0 ELSE Head(t)[2] + TextLen(Tail(t))

\* text + more
TextConcat(t, more) ==
    IF t = <<>> THEN more
    ELSE IF more = <<>> THEN t
    ELSE IF t[Len(t)][1] = more[1][1]
         THEN SubSeq(t, 1, Len(t) - 1)
              \o <<Run(more[1][1], t[Len(t)][2] + more[1][2])>> \o Tail(more)
         ELSE t \o more

RECURSIVE TextTake(_, _)
\* text[:k]
TextTake(t, k) ==
    IF k = 0 \/ t = <<>> THEN <<>>
    ELSE IF Head(t)[2] >= k THEN <<Run(Head(t)[1], k)>>
         ELSE <<Head(t)>> \o TextTake(Tail(t), k - Head(t)[2])

RECURSIVE Literal(_)
\* the text of a string constant of the program, given by its characters
Literal(chars) ==
    IF chars = <<>> THEN <<>>
    ELSE TextConcat(<<Run(Head(chars), 1)>>, Literal(Tail(chars)))

\* len(strings.Fields(text)): the maximal runs of bytes other than the space
FieldsCount(t) ==
    Cardinality({i \in 1..Len(t) : t[i][1] # " " /\ (i = 1 \/ t[i - 1][1] = " ")})

\* the parts of a message
TextContent(text) == [kind |-> "text", Text |-> text]
ToolCall(id, name, input) == [kind |-> "call", ID |-> id, Name |-> name, Input |-> input]
ToolResult(id, content, isError) ==
    [kind |-> "result", ToolCallID |-> id, Content |-> content, IsError |-> isError]
FinishPart == [kind |-> "finish"]

\* a message of a transcript: Parts is the address of its array of parts
\* (NilAddr for a nil slice), the other fields are values
TranscriptMessage(id, role, parts) == [ID |-> id, Role |-> role, Parts |-> parts]

PartsAt(heap, addr) == IF addr = NilAddr THEN <<>> ELSE heap[addr]

\* estimateTextTokens, lines 89-100: int(words*1.3 + chars*0.25); the sum
\* is a whole number only if it is one exactly, so the conversion cuts the
\* exact value
estimateTextTokens(text) == (26 * FieldsCount(text) + 5 * TextLen(text)) \div 20

partTokens(p) ==
    CASE p.kind = "text" -> estimateTextTokens(p.Text)
      [] p.kind = "call" -> estimateTextTokens(p.Name) + estimateTextTokens(p.Input)
      [] p.kind = "result" -> estimateTextTokens(p.Content)
      [] OTHER -> 0

RECURSIVE partsTokens(_)
partsTokens(parts) ==
    IF parts = <<>> THEN 0 ELSE partTokens(Head(parts)) + partsTokens(Tail(parts))

RECURSIVE countTokensInMessages(_, _)
\* lines 65-86: 4 for each message and the estimate of each of its parts
countTokensInMessages(heap, messages) ==
    IF messages = <<>> THEN 0
    ELSE 4 + partsTokens(PartsAt(heap, Head(messages).Parts))
           + countTokensInMessages(heap, Tail(messages))

truncatedMarker ==
    Literal(<<".", ".", ".", " ", "[", "t", "r", "u", "n", "c", "a", "t", "e", "d", "]">>)
resultTruncatedMarker ==
    Literal(<<".", ".", ".", " ", "[", "r", "e", "s", "u", "l", "t", " ",
              "t", "r", "u", "n", "c", "a", "t", "e", "d", "]">>)

\* summarizeMessage, lines 151-176: what is appended for one part
summarizePart(p) ==
    CASE p.kind = "text" ->
            TextContent(IF TextLen(p.Text) > 500
                        THEN TextConcat(TextTake(p.Text, 400), truncatedMarker)
                        ELSE p.Text)
      [] p.kind = "call" -> p
      [] p.kind = "result" ->
            ToolResult(p.ToolCallID,
                       IF TextLen(p.Content) > 1000
                       THEN TextConcat(TextTake(p.Content, 800), resultTruncatedMarker)
                       ELSE p.Content,
                       p.IsError)
      [] OTHER -> p

summarizeParts(parts) == [k \in 1..Len(parts) |-> summarizePart(parts[k])]

\* summarizeMessage writing the shortened parts into the array of the message
summarizeMessageMutInPlace(heap, msg) ==
    IF PartsAt(heap, msg.Parts) = <<>>
    THEN [heap |-> heap, msg |-> [msg EXCEPT !.Parts = NilAddr]]
    ELSE [heap |-> [heap EXCEPT ![msg.Parts] = summarizeParts(heap[msg.Parts])],
          msg |-> msg]

\* summarizeMessage, lines 147-180: a copy of the message whose Parts starts
\* as nil and grows by append, so in an array of its own
summarizeMessage(heap, msg) ==
    IF PartsAt(heap, msg.Parts) = <<>>
    THEN [heap |-> heap, msg |-> [msg EXCEPT !.Parts = NilAddr]]
    ELSE [heap |-> Append(heap, summarizeParts(heap[msg.Parts])),
          msg |-> [msg EXCEPT !.Parts = Len(heap) + 1]]

RoleSystem == <<"s", "y", "s", "t", "e", "m">>
RoleTool == <<"t", "o", "o", "l">>

minMutFour(a, b) == IF a - 1 < b THEN a - 1 ELSE b
\* min, lines 182-187
min(a, b) == IF a < b THEN a ELSE b

RECURSIVE optimizeLoop(_, _, _, _, _)
\* the loop of lines 123-135 from message i on
optimizeLoop(messages, targetSize, i, heap, optimized) ==
    IF i > Len(messages) THEN [heap |-> heap, optimized |-> optimized]
    ELSE IF messages[i].Role = RoleSystem
            \/ i - 1 >= Len(messages) - min(5, Len(messages))
         THEN optimizeLoop(messages, targetSize, i + 1, heap,
                           Append(optimized, messages[i]))
         ELSE IF countTokensInMessages(heap, optimized) < targetSize
              THEN LET s == summarizeMessage(heap, messages[i])
                   IN  optimizeLoop(messages, targetSize, i + 1, s.heap,
                                    Append(optimized, s.msg))
              ELSE optimizeLoop(messages, targetSize, i + 1, heap, optimized)

\* the reductions are given in quarters, which float64 holds exactly
\* int(float64(currentSize) * (1 - targetReduction)), line 110
targetSizeOf(currentSize, quarters) == (currentSize * (4 - quarters)) \div 4

\* what the call returns: the slice it was given (same) or one it made
NoTranscript == [same |-> FALSE, messages |-> <<>>, heap |-> <<>>]

\* lines 103-144
OptimizeMessages(heap, messages, quarters) ==
    IF quarters <= 0 \/ quarters >= 4
    THEN [same |-> TRUE, messages |-> messages, heap |-> heap]
    ELSE LET r == optimizeLoop(messages,
                               targetSizeOf(countTokensInMessages(heap, messages), quarters),
                               1, heap, <<>>)
         IN  [same |-> FALSE, messages |-> r.optimized, heap |-> r.heap]

\* the texts of the transcripts
ShortText == <<Run("a", 3), Run(" ", 1), Run("b", 4)>>
EdgeText == <<Run("a", 250), Run(" ", 1), Run("b", 249)>>
LongText == <<Run("a", 300), Run(" ", 1), Run("b", 299)>>
EdgeResult == <<Run("r", 1000)>>
LongResult == <<Run("r", 600), Run(" ", 300), Run("s", 200)>>
ToolName == <<Run("l", 1), Run("s", 1)>>

\* the messages a transcript is made of
MessageChoices ==
    {[Role |-> RoleSystem, Parts |-> <<TextContent(LongText)>>],
     [Role |-> RoleUser, Parts |-> <<TextContent(ShortText), TextContent(EdgeText)>>],
     [Role |-> RoleAssistant,
      Parts |-> <<TextContent(LongText), ToolCall(1, ToolName, LongText), FinishPart>>],
     [Role |-> RoleTool,
      Parts |-> <<ToolResult(1, LongResult, FALSE), ToolResult(2, EdgeResult, TRUE)>>],
     [Role |-> RoleUser, Parts |-> <<>>]}

\* the reductions, in quarters: below 0, 0, 0.25, 0.5, 0.75, 1, above 1
Reductions == (0 - 1)..5

\* a transcript of the given messages: message i has the identity i and its
\* parts in the array at address i, or no array when it has no parts
omInit ==
    /\ \E n \in 0..MaxMessages :
         \E choice \in [1..n -> MessageChoices] :
            /\ omHeap = [i \in 1..n |-> choice[i].Parts]
            /\ omMessages = [i \in 1..n |->
                  TranscriptMessage(i, choice[i].Role,
                                    IF choice[i].Parts = <<>> THEN NilAddr ELSE i)]
    /\ omReduction \in Reductions
    /\ omPc = "call"
    /\ omRet = NoTranscript
    /\ omGiven = [same |-> FALSE, messages |-> omMessages, heap |-> omHeap]

\* one call of OptimizeMessages on the caller's transcript
omOptimizeMessages ==
    /\ omPc = "call"
    /\ LET r == OptimizeMessages(omHeap, omMessages, omReduction)
       IN  /\ omRet' = [same |-> r.same, messages |-> r.messages, heap |-> <<>>]
           /\ omHeap' = r.heap
    /\ omPc' = "returned"
    /\ UNCHANGED <<omMessages, omReduction, omGiven>>

----------------------------------------------------------------------------
(* The batch tool (src/internal/llm/tools/batch.go) *)

\* the path of the elements segs under the root
RootedPath(segs) == <<Sep>> \o JoinSegs(segs)

RECURSIVE ResolveSegs(_, _, _)
\* the kernel's walk along an absolute path: every element, "." and ".."
\* included, is looked up in a directory that exists
ResolveSegs(segs, cur, dirs) ==
    IF segs = <<>> THEN [ok |-> TRUE, path |-> RootedPath(cur)]
    ELSE IF Head(segs) = <<>> THEN ResolveSegs(Tail(segs), cur, dirs)
    ELSE IF RootedPath(cur) \notin dirs THEN [ok |-> FALSE, path |-> NoPath]
    ELSE IF Head(segs) = Dot THEN ResolveSegs(Tail(segs), cur, dirs)
    ELSE IF Head(segs) = DotDot
         THEN ResolveSegs(Tail(segs),
                          IF cur = <<>> THEN cur ELSE SubSeq(cur, 1, Len(cur) - 1), dirs)
         ELSE ResolveSegs(Tail(segs), Append(cur, Head(segs)), dirs)

\* the file or directory an absolute path names, if its directories exist
Resolve(p, dirs) == ResolveSegs(SplitSegs(p), <<>>, dirs)

\* filepath.Dir of an absolute path
Dir(p) ==
    LET e == Elems(p) IN
    IF e = <<>> THEN <<Sep>> ELSE RootedPath(SubSeq(e, 1, Len(e) - 1))

\* the directories from the root down to the cleaned path p
Ancestors(p) == {RootedPath(SubSeq(Elems(p), 1, k)) : k \in 0..Len(Elems(p))}

\* the path p is dir or lies below it
InsideDir(p, dir) ==
    /\ Len(Elems(dir)) <= Len(Elems(p))
    /\ SubSeq(Elems(p), 1, Len(Elems(dir))) = Elems(dir)

\* os.ReadFile: the file that is read, if there is one
ReadFile(p, files, dirs) ==
    LET r == Resolve(p, dirs) IN
    IF r.ok /\ r.path \in DOMAIN files
    THEN [ok |-> TRUE, path |-> r.path, content |-> files[r.path]]
    ELSE [ok |-> FALSE, path |-> NoPath, content |-> <<>>]

\* os.WriteFile: the file that is created or truncated and written
WriteFile(p, files, dirs) ==
    LET r == Resolve(p, dirs) IN
    IF r.ok /\ r.path \notin dirs /\ Dir(r.path) \in dirs
    THEN [ok |-> TRUE, path |-> r.path]
    ELSE [ok |-> FALSE, path |-> NoPath]

\* filepath.Walk: everything at and below the root, if the root is there
Walked(root, files, dirs) ==
    LET r == Resolve(root, dirs) IN
    IF r.ok /\ r.path \in DOMAIN files \cup dirs
    THEN {p \in DOMAIN files \cup dirs : InsideDir(p, r.path)}
    ELSE {}

RECURSIVE ExtFrom(_, _)
ExtFrom(p, i) ==
    IF i = 0 \/ p[i] = Sep THEN <<>>
    ELSE IF p[i] = "." THEN SubSeq(p, i, Len(p))
    ELSE ExtFrom(p, i - 1)
\* filepath.Ext
Ext(p) == ExtFrom(p, Len(p))

\* a parameter of an operation: absent (or no string), or a string
NoParam == [given |-> FALSE, value |-> <<>>]
Param(v) == [given |-> TRUE, value |-> v]

\* the path an operation works on, lines 273-275, 319-324: a relative
\* parameter is joined to the working directory, an absolute one is taken
\* as it is
OperationPath(workingDir, path) ==
    IF ~IsAbs(path) THEN JoinPath(workingDir, path) ELSE path

\* the root of a walk, lines 217-225, 353-361, 433-441
WalkRoot(workingDir, param) ==
    IF param.given THEN OperationPath(workingDir, param.value) ELSE workingDir

NoOperation == [type |-> <<>>, path |-> NoParam, other |-> NoParam, text |-> NoParam]
Operation(type, path, other, text) ==
    [type |-> type, path |-> path, other |-> other, text |-> text]

\* the contents of files, and the extensions of pattern_find
OldContent == <<"x">>
NewContent == <<"y">>
defaultExtensions ==
    {<<".", "g", "o">>, <<".", "j", "s">>, <<".", "t", "s">>, <<".", "p", "y">>,
     <<".", "j", "a", "v", "a">>, <<".", "c", "p", "p">>, <<".", "c">>, <<".", "h">>}

\* strings.ReplaceAll on a content of one character
ReplaceAll1(content, old, new) ==
    [k \in 1..Len(content) |-> IF <<content[k]>> = old THEN new[1] ELSE content[k]]

\* the tool's working directory, a file in it, a file and a directory
\* outside it
BatchWorkingDir == <<Sep, "w">>
InitialFiles ==
    (<<Sep, "w", Sep, "a">> :> OldContent) @@ (<<Sep, "a">> :> OldContent)
InitialDirs == {<<Sep>>, <<Sep, "w">>, <<Sep, "a", "a">>}

PathParams == {NoParam} \cup {Param(p) : p \in RequestedPaths}
SourceParams == {NoParam, Param(<<"a">>), Param(<<Sep, "a">>), Param(<<".", ".", Sep, "a">>)}
TextParams == {NoParam, Param(OldContent), Param(NewContent)}
ExtensionParams == {NoParam, Param(<<>>)}

BatchOperations ==
    {Operation("file_search", p, NoParam, t) : p \in PathParams, t \in {NoParam, Param(<<"a">>)}}
    \cup {Operation("text_replace", p, Param(NewContent), t) : p \in PathParams, t \in TextParams}
    \cup {Operation("file_copy", p, s, NoParam) : p \in PathParams, s \in SourceParams}
    \cup {Operation("dir_analysis", p, NoParam, NoParam) : p \in PathParams}
    \cup {Operation("pattern_find", p, e, Param(<<"x">>)) : p \in PathParams, e \in ExtensionParams}

btInit ==
    /\ btWorkingDir = BatchWorkingDir
    /\ btOp \in BatchOperations
    /\ btFiles = InitialFiles
    /\ btDirs = InitialDirs
    /\ btRead = {}
    /\ btWritten = {}
    /\ btWalked = {}
    /\ btPc = "call"
    /\ btErr = FALSE

btFail ==
    /\ btErr' = TRUE
    /\ UNCHANGED <<btFiles, btDirs, btRead, btWritten, btWalked>>

\* executeFileSearch, lines 211-255
btFileSearch ==
    /\ btPc = "call" /\ btOp.type = "file_search"
    /\ IF ~btOp.text.given THEN btFail
       ELSE /\ btWalked' = Walked(WalkRoot(btWorkingDir, btOp.path), btFiles, btDirs)
            /\ btErr' = FALSE
            /\ UNCHANGED <<btFiles, btDirs, btRead, btWritten>>
    /\ btPc' = "returned"
    /\ UNCHANGED <<btWorkingDir, btOp>>

\* executeTextReplace, lines 257-306: old_text is the parameter text,
\* new_text the parameter other
btTextReplace ==
    /\ btPc = "call" /\ btOp.type = "text_replace"
    /\ IF ~btOp.path.given \/ ~btOp.text.given \/ ~btOp.other.given THEN btFail
       ELSE LET filePath == OperationPath(btWorkingDir, btOp.path.value)
                read == ReadFile(filePath, btFiles, btDirs)
                replaced == ReplaceAll1(read.content, btOp.text.value, btOp.other.value)
                written == WriteFile(filePath, btFiles, btDirs)
            IN  IF ~read.ok THEN btFail
                ELSE /\ btRead' = {read.path}
                     /\ btErr' = FALSE
                     /\ IF replaced = read.content
                        THEN UNCHANGED <<btFiles, btWritten>>
                        ELSE /\ btFiles' = [btFiles EXCEPT ![written.path] = replaced]
                             /\ btWritten' = {written.path}
                     /\ UNCHANGED <<btDirs, btWalked>>
    /\ btPc' = "returned"
    /\ UNCHANGED <<btWorkingDir, btOp>>

\* executeFileCopy, lines 308-350: destination is the parameter path,
\* source the parameter other
btFileCopy ==
    /\ btPc = "call" /\ btOp.type = "file_copy"
    /\ IF ~btOp.path.given \/ ~btOp.other.given THEN btFail
       ELSE LET source == OperationPath(btWorkingDir, btOp.other.value)
                destination == OperationPath(btWorkingDir, btOp.path.value)
                read == ReadFile(source, btFiles, btDirs)
                destDir == Dir(destination)
                made == Ancestors(destDir) \ btDirs
                mkdirOk == Ancestors(destDir) \cap DOMAIN btFiles = {}
                written == WriteFile(destination, btFiles, btDirs \cup made)
            IN  IF ~read.ok THEN btFail
                ELSE /\ btRead' = {read.path}
                     /\ UNCHANGED btWalked
                     /\ IF ~mkdirOk
                        THEN /\ btErr' = TRUE
                             /\ UNCHANGED <<btFiles, btDirs, btWritten>>
                        ELSE /\ btDirs' = btDirs \cup made
                             /\ IF written.ok
                                THEN /\ btFiles' = (written.path :> read.content) @@ btFiles
                                     /\ btWritten' = made \cup {written.path}
                                     /\ btErr' = FALSE
                                ELSE /\ btWritten' = made
                                     /\ btErr' = TRUE
                                     /\ UNCHANGED btFiles
    /\ btPc' = "returned"
    /\ UNCHANGED <<btWorkingDir, btOp>>

\* executeDirAnalysis, lines 352-425
btDirAnalysis ==
    /\ btPc = "call" /\ btOp.type = "dir_analysis"
    /\ btWalked' = Walked(WalkRoot(btWorkingDir, btOp.path), btFiles, btDirs)
    /\ btErr' = FALSE
    /\ btPc' = "returned"
    /\ UNCHANGED <<btWorkingDir, btOp, btFiles, btDirs, btRead, btWritten>>

\* executePatternFind, lines 427-503: the extensions are the parameter other
btPatternFind ==
    /\ btPc = "call" /\ btOp.type = "pattern_find"
    /\ IF ~btOp.text.given THEN btFail
       ELSE LET walked == Walked(WalkRoot(btWorkingDir, btOp.path), btFiles, btDirs)
                fileExtensions == IF btOp.other.given THEN {btOp.other.value}
                                  ELSE defaultExtensions
            IN  /\ btWalked' = walked
                /\ btRead' = {p \in walked \cap DOMAIN btFiles : Ext(p) \in fileExtensions}
                /\ btErr' = FALSE
                /\ UNCHANGED <<btFiles, btDirs, btWritten>>
    /\ btPc' = "returned"
    /\ UNCHANGED <<btWorkingDir, btOp>>

----------------------------------------------------------------------------
(* CheckpointService.RestoreCheckpoint (src/internal/checkpoint/checkpoint.go) *)

\* the most stashes of the repository
MaxStashes == 2

StashPrefix == <<"s", "t", "a", "s", "h", "-">>
DecimalDigits == <<"0", "1", "2", "3", "4", "5", "6", "7", "8", "9">>
\* fmt.Sprintf("stash-%d", i), line 267, for i below 10
StashID(i) == StashPrefix \o <<DecimalDigits[i + 1]>>

\* the commits git reset can resolve, and a name it cannot
KnownCommits == {<<"c", "1">>}
CheckpointIDs ==
    {StashID(i) : i \in 0..MaxStashes} \cup KnownCommits \cup {<<"z", "z">>}

\* the state of the working tree: the user's uncommitted changes, or what a
\* restore has put in their place
UncommittedChanges == [by |-> "user", id |-> <<>>]
StashApplied(i) == [by |-> "stash apply", id |-> StashID(i)]
HardReset(id) == [by |-> "reset --hard", id |-> id]

\* ctx.Value(key).(string): the value, or "" when the context has none
ContextValues == {<<>>, <<"i", "d">>}

\* getContextValues, lines 354-359, has read the two values; the guard of
\* line 132
ShouldRequest(sessionID, messageID) == sessionID # <<>> /\ messageID # <<>>

\* restoreFromStash, lines 314-330: the stash with that ID, if there is one
StashIndex(checkpointID, stashes) ==
    {i \in 0..(stashes - 1) : StashID(i) = checkpointID}

cpInit ==
    /\ cpIsGitRepo \in BOOLEAN
    /\ cpSessionID \in ContextValues
    /\ cpMessageID \in ContextValues
    /\ cpCheckpointID \in CheckpointIDs
    /\ cpStashes \in 0..MaxStashes
    /\ cpWorktree = UncommittedChanges
    /\ cpRequests = <<>>
    /\ cpGranted = FALSE
    /\ cpPc = "call"
    /\ cpErr = "nil"

\* the restore itself, lines 146-152, 314-339; git stash apply may fail (a
\* conflict), git reset --hard fails on a name it cannot resolve
cpRestore ==
    IF HasPrefix(cpCheckpointID, StashPrefix)
    THEN IF StashIndex(cpCheckpointID, cpStashes) = {}
         THEN cpErr' = "checkpoint not found" /\ UNCHANGED cpWorktree
         ELSE \/ /\ cpWorktree' = StashApplied(CHOOSE i \in StashIndex(cpCheckpointID, cpStashes) : TRUE)
                 /\ cpErr' = "nil"
              \/ cpErr' = "failed to apply stash" /\ UNCHANGED cpWorktree
    ELSE IF cpCheckpointID \in KnownCommits
         THEN cpWorktree' = HardReset(cpCheckpointID) /\ cpErr' = "nil"
         ELSE cpErr' = "failed to reset to commit" /\ UNCHANGED cpWorktree

\* RestoreCheckpoint, lines 125-153; the permission service grants or denies
cpRestoreCheckpoint ==
    /\ cpPc = "call"
    /\ IF ~cpIsGitRepo
       THEN /\ cpErr' = "not in a git repository"
            /\ UNCHANGED <<cpWorktree, cpRequests, cpGranted>>
       ELSE IF ShouldRequest(cpSessionID, cpMessageID)
            THEN /\ cpRequests' = Append(cpRequests,
                                         [SessionID |-> cpSessionID, ToolCallID |-> cpMessageID,
                                          Action |-> "restore", Checkpoint |-> cpCheckpointID])
                 /\ \E granted \in BOOLEAN :
                       /\ cpGranted' = granted
                       /\ IF granted THEN cpRestore
                          ELSE /\ cpErr' = "permission denied to restore checkpoint"
                               /\ UNCHANGED cpWorktree
            ELSE /\ cpRestore
                 /\ UNCHANGED <<cpRequests, cpGranted>>
    /\ cpPc' = "returned"
    /\ UNCHANGED <<cpIsGitRepo, cpSessionID, cpMessageID, cpCheckpointID, cpStashes>>

----------------------------------------------------------------------------
(* Specifications, one for each component *)

ckIdle == ckReqA = NoRequest /\ ckReqB = NoRequest /\ ckPc = "idle" /\ ckKeys = <<>>
clIdle == clPc = "idle"
fbIdle == fbEnabled = FALSE /\ fbThreshold = 0 /\ fbUser = NoRequest /\ fbResponse = NoRequest
          /\ fbPc = "idle" /\ fbRet = NoQuality
omIdle == omMessages = <<>> /\ omHeap = <<>> /\ omReduction = 0 /\ omPc = "idle"
          /\ omRet = NoTranscript /\ omGiven = NoTranscript
btIdle == btWorkingDir = <<>> /\ btOp = NoOperation /\ btFiles = <<>> /\ btDirs = {}
          /\ btRead = {} /\ btWritten = {} /\ btWalked = {} /\ btPc = "idle" /\ btErr = FALSE
cpIdle == cpIsGitRepo = FALSE /\ cpSessionID = <<>> /\ cpMessageID = <<>> /\ cpCheckpointID = <<>>
          /\ cpStashes = 0 /\ cpWorktree = UncommittedChanges /\ cpRequests = <<>>
          /\ cpGranted = FALSE /\ cpPc = "idle" /\ cpErr = "nil"
vpIdle == vpRequested = <<>> /\ vpWorkingDir = <<>> /\ vpPc = "idle"
          /\ vpResult = [path |-> NoPath, err |-> "nil"]
vcIdle == vcCommand = <<>> /\ vcAllow = FALSE /\ vcAllowed = {} /\ vcPc = "idle"
          /\ vcResult = "nil"
rvIdle == rvValue = <<>> /\ rvAllow = FALSE /\ rvEnv = EnvNone /\ rvPc = "idle"
          /\ rvResult = <<>> /\ rvOrigin = <<>> /\ rvSearchStart = 1 /\ rvRet = NilRet
          /\ rvExecs = <<>> /\ rvReads = <<>> /\ rvPrev = [set |-> FALSE, val |-> <<>>]
spIdle == enabled = FALSE /\ patterns = EmptyTable /\ now = 0 /\ gateCalls = 0
          /\ lastRequest = [n |-> 0, key |-> <<>>, gateVerdict |-> FALSE, returned |-> FALSE]
exIdle == exPc = "idle" /\ exDuration = 0 /\ exFails = FALSE /\ exElapsed = 0
          /\ exCancelled = FALSE /\ exCancelAt = 0 /\ exRet = "none"
ceIdle == ceThreshold = Num(0) /\ ceCalls = <<>>
lvIdle == lvPc = "idle" /\ lvFile = FileMissing /\ lvHeap = <<>> /\ lvTable = EmptyTable
          /\ lvNil = FALSE /\ lvLoaded = EmptyTable /\ lvReq = [w \in {} |-> 0]
          /\ lvSave = [w \in {} |-> 0]
kpIdle == kpPathA = <<>> /\ kpPathB = <<>> /\ kpPc = "idle" /\ kpKeys = <<>>
rcIdle == rcEnabled = FALSE /\ rcMaxSize = 0 /\ rcTTL = 0 /\ rcCache = EmptyCache
          /\ rcNow = 0 /\ rcProc = [g \in {} |-> 0] /\ rcCall = NoCall

\* the variables each component leaves alone
exceptPath == <<vcVars, rvVars, spVars, rcVars, kpVars, lvVars, exVars, ceVars, ckVars, clVars, fbVars, omVars, btVars, cpVars>>
exceptCommand == <<vpVars, rvVars, spVars, rcVars, kpVars, lvVars, exVars, ceVars, ckVars, clVars, fbVars, omVars, btVars, cpVars>>
exceptResolve == <<vpVars, vcVars, spVars, rcVars, kpVars, lvVars, exVars, ceVars, ckVars, clVars, fbVars, omVars, btVars, cpVars>>
exceptPermission == <<vpVars, vcVars, rvVars, rcVars, kpVars, lvVars, exVars, ceVars, ckVars, clVars, fbVars, omVars, btVars, cpVars>>
exceptCache == <<vpVars, vcVars, rvVars, spVars, kpVars, lvVars, exVars, ceVars, ckVars, clVars, fbVars, omVars, btVars, cpVars>>
exceptLearner == <<vpVars, vcVars, rvVars, spVars, rcVars, kpVars, exVars, ceVars, ckVars, clVars, fbVars, omVars, btVars, cpVars>>
exceptKey == <<vpVars, vcVars, rvVars, spVars, rcVars, lvVars, exVars, ceVars, ckVars, clVars, fbVars, omVars, btVars, cpVars>>
exceptExec == <<vpVars, vcVars, rvVars, spVars, rcVars, kpVars, lvVars, ceVars, ckVars, clVars, fbVars, omVars, btVars, cpVars>>
exceptCost == <<vpVars, vcVars, rvVars, spVars, rcVars, kpVars, lvVars, exVars, ckVars, clVars, fbVars, omVars, btVars, cpVars>>
exceptCacheKey == <<vpVars, vcVars, rvVars, spVars, rcVars, kpVars, lvVars, exVars, ceVars, clVars, fbVars, omVars, btVars, cpVars>>
exceptClear == <<vpVars, vcVars, rvVars, spVars, rcVars, kpVars, exVars, ceVars, ckVars, fbVars, omVars, btVars, cpVars>>
exceptFeedback == <<vpVars, vcVars, rvVars, spVars, rcVars, kpVars, lvVars, exVars, ceVars, ckVars, clVars, omVars, btVars, cpVars>>
exceptOptimize == <<vpVars, vcVars, rvVars, spVars, rcVars, kpVars, lvVars, exVars, ceVars, ckVars, clVars, fbVars, btVars, cpVars>>
exceptBatch == <<vpVars, vcVars, rvVars, spVars, rcVars, kpVars, lvVars, exVars, ceVars, ckVars, clVars, fbVars, omVars, cpVars>>
exceptCheckpoint == <<vpVars, vcVars, rvVars, spVars, rcVars, kpVars, lvVars, exVars, ceVars, ckVars, clVars, fbVars, omVars, btVars>>

InitPath == vpInit /\ vcIdle /\ rvIdle /\ spIdle /\ rcIdle /\ kpIdle /\ lvIdle /\ exIdle /\ ceIdle /\ ckIdle /\ clIdle /\ fbIdle /\ omIdle /\ btIdle /\ cpIdle
NextPath == vpValidate /\ UNCHANGED exceptPath
SpecPath == InitPath /\ [][NextPath]_vars

InitCommand == vcInit /\ vpIdle /\ rvIdle /\ spIdle /\ rcIdle /\ kpIdle /\ lvIdle /\ exIdle /\ ceIdle /\ ckIdle /\ clIdle /\ fbIdle /\ omIdle /\ btIdle /\ cpIdle
NextCommand == vcValidate /\ UNCHANGED exceptCommand
SpecCommand == InitCommand /\ [][NextCommand]_vars

InitResolve == rvInit /\ vpIdle /\ vcIdle /\ spIdle /\ rcIdle /\ kpIdle /\ lvIdle /\ exIdle /\ ceIdle /\ ckIdle /\ clIdle /\ fbIdle /\ omIdle /\ btIdle /\ cpIdle
NextResolve ==
    \/ rvEnter /\ UNCHANGED exceptResolve
    \/ rvCommandStep /\ UNCHANGED exceptResolve
    \/ rvVariableStep /\ UNCHANGED exceptResolve
    \/ rvResolveAgain /\ UNCHANGED exceptResolve
SpecResolve == InitResolve /\ [][NextResolve]_vars

InitPermission == spInit /\ vpIdle /\ vcIdle /\ rvIdle /\ rcIdle /\ kpIdle /\ lvIdle /\ exIdle /\ ceIdle /\ ckIdle /\ clIdle /\ fbIdle /\ omIdle /\ btIdle /\ cpIdle
NextPermission ==
    \/ spRequest /\ UNCHANGED exceptPermission
    \/ spClearLearning /\ UNCHANGED exceptPermission
    \/ spTick /\ UNCHANGED exceptPermission
SpecPermission == InitPermission /\ [][NextPermission]_vars

InitCache == rcInit /\ vpIdle /\ vcIdle /\ rvIdle /\ spIdle /\ kpIdle /\ lvIdle /\ exIdle /\ ceIdle /\ ckIdle /\ clIdle /\ fbIdle /\ omIdle /\ btIdle /\ cpIdle
NextCache ==
    \/ rcSet /\ UNCHANGED exceptCache
    \/ rcSetDisabled /\ UNCHANGED exceptCache
    \/ \E g \in Readers : rcGetCall(g) /\ UNCHANGED exceptCache
    \/ \E g \in Readers : rcGetLookup(g) /\ UNCHANGED exceptCache
    \/ \E g \in Readers : rcGetCheck(g) /\ UNCHANGED exceptCache
    \/ \E g \in Readers : rcGetDelete(g) /\ UNCHANGED exceptCache
    \/ rcClear /\ UNCHANGED exceptCache
    \/ rcCleanExpired /\ UNCHANGED exceptCache
    \/ rcTick /\ UNCHANGED exceptCache
SpecCache == InitCache /\ [][NextCache]_vars

InitKey == kpInit /\ vpIdle /\ vcIdle /\ rvIdle /\ spIdle /\ rcIdle /\ lvIdle /\ exIdle /\ ceIdle /\ ckIdle /\ clIdle /\ fbIdle /\ omIdle /\ btIdle /\ cpIdle
NextKey == kpGetPatternKeys /\ UNCHANGED exceptKey
SpecKey == InitKey /\ [][NextKey]_vars

otherIdle == vpIdle /\ vcIdle /\ rvIdle /\ spIdle /\ rcIdle /\ kpIdle /\ exIdle /\ ceIdle /\ ckIdle /\ clIdle /\ fbIdle /\ omIdle /\ btIdle /\ cpIdle

\* the steps of the goroutines of a running service
lvStep ==
    \/ \E w \in DOMAIN lvReq : lvBegin(w)
    \/ \E w \in DOMAIN lvReq : lvShouldAutoApprove(w)
    \/ \E w \in DOMAIN lvReq : lvGate(w)
    \/ \E w \in DOMAIN lvReq : lvLock(w)
    \/ \E w \in DOMAIN lvReq : lvLearn(w)
    \/ \E w \in DOMAIN lvReq : lvStore(w)
    \/ \E s \in DOMAIN lvSave : lvSnapshot(s)
    \/ \E s \in DOMAIN lvSave : lvMarshal(s)
    \/ \E s \in DOMAIN lvSave : lvOpen(s)
    \/ \E s \in DOMAIN lvSave : lvWrite(s)

\* a parallel batch of Request calls on a service constructed with no pattern
\* file or with the file of an earlier session
InitLearner == lvInit({FileMissing, FileTable(SavedTable, {})}, Workers) /\ otherIdle
NextLearner ==
    \/ lvConstruct /\ UNCHANGED exceptLearner
    \/ lvStep /\ UNCHANGED exceptLearner
SpecLearner == InitLearner /\ [][NextLearner]_vars

\* the first Request on a service constructed with any pattern file
InitLoad ==
    /\ lvInit({FileMissing, FileUnreadable, FileUnparsable, FileGarbled, FileNull,
                FileNullEntry, FileTable(SavedTable, {})}, {1})
    /\ otherIdle
NextLoad ==
    \/ lvConstruct /\ UNCHANGED exceptLearner
    \/ lvStep /\ UNCHANGED exceptLearner
SpecLoad == InitLoad /\ [][NextLoad]_vars

\* two parallel Requests and one ClearLearning on a service constructed with no
\* pattern file
PersistWorkers == {1, 2}
InitPersist ==
    /\ lvInit({FileMissing}, PersistWorkers)
    /\ clPc = "call"
    /\ vpIdle /\ vcIdle /\ rvIdle /\ spIdle /\ rcIdle /\ kpIdle /\ exIdle /\ ceIdle /\ ckIdle /\ fbIdle /\ omIdle /\ btIdle /\ cpIdle
NextPersist ==
    \/ lvConstruct /\ UNCHANGED exceptLearner
    \/ lvStep /\ UNCHANGED exceptLearner
    \/ lvClearLearning /\ UNCHANGED exceptClear
    \/ lvClearRemove /\ UNCHANGED exceptClear
    \/ (\E s \in DOMAIN lvSave : lvWriteUnlinked(s)) /\ UNCHANGED exceptClear
SpecPersist == InitPersist /\ [][NextPersist]_vars

InitFeedback == fbInit /\ vpIdle /\ vcIdle /\ rvIdle /\ spIdle /\ rcIdle /\ kpIdle /\ lvIdle /\ exIdle /\ ceIdle /\ ckIdle /\ clIdle /\ omIdle /\ btIdle /\ cpIdle
NextFeedback == fbEvaluateResponse /\ UNCHANGED exceptFeedback
SpecFeedback == InitFeedback /\ [][NextFeedback]_vars

InitOptimize == omInit /\ vpIdle /\ vcIdle /\ rvIdle /\ spIdle /\ rcIdle /\ kpIdle /\ lvIdle /\ exIdle /\ ceIdle /\ ckIdle /\ clIdle /\ fbIdle /\ btIdle /\ cpIdle
NextOptimize == omOptimizeMessages /\ UNCHANGED exceptOptimize
SpecOptimize == InitOptimize /\ [][NextOptimize]_vars

InitBatch == btInit /\ vpIdle /\ vcIdle /\ rvIdle /\ spIdle /\ rcIdle /\ kpIdle /\ lvIdle /\ exIdle /\ ceIdle /\ ckIdle /\ clIdle /\ fbIdle /\ omIdle /\ cpIdle
NextBatch ==
    \/ btFileSearch /\ UNCHANGED exceptBatch
    \/ btTextReplace /\ UNCHANGED exceptBatch
    \/ btFileCopy /\ UNCHANGED exceptBatch
    \/ btDirAnalysis /\ UNCHANGED exceptBatch
    \/ btPatternFind /\ UNCHANGED exceptBatch
SpecBatch == InitBatch /\ [][NextBatch]_vars

InitCheckpoint == cpInit /\ vpIdle /\ vcIdle /\ rvIdle /\ spIdle /\ rcIdle /\ kpIdle /\ lvIdle /\ exIdle /\ ceIdle /\ ckIdle /\ clIdle /\ fbIdle /\ omIdle /\ btIdle
NextCheckpoint == cpRestoreCheckpoint /\ UNCHANGED exceptCheckpoint
SpecCheckpoint == InitCheckpoint /\ [][NextCheckpoint]_vars

\* one command execution, with its clock and the caller's cancellation
InitExec == exInit /\ vpIdle /\ vcIdle /\ rvIdle /\ spIdle /\ rcIdle /\ kpIdle /\ lvIdle /\ ceIdle /\ ckIdle /\ clIdle /\ fbIdle /\ omIdle /\ btIdle /\ cpIdle
NextExec ==
    \/ exBegin /\ UNCHANGED exceptExec
    \/ exTick /\ UNCHANGED exceptExec
    \/ exCallerCancel /\ UNCHANGED exceptExec
    \/ exReturn /\ UNCHANGED exceptExec
SpecExec == InitExec /\ [][NextExec]_vars

InitCost == ceInit /\ vpIdle /\ vcIdle /\ rvIdle /\ spIdle /\ rcIdle /\ kpIdle /\ lvIdle /\ exIdle /\ ckIdle /\ clIdle /\ fbIdle /\ omIdle /\ btIdle /\ cpIdle
NextCost == ceShouldProceed /\ UNCHANGED exceptCost
SpecCost == InitCost /\ [][NextCost]_vars

InitCacheKey == ckInit /\ vpIdle /\ vcIdle /\ rvIdle /\ spIdle /\ rcIdle /\ kpIdle /\ lvIdle /\ exIdle /\ ceIdle /\ clIdle /\ fbIdle /\ omIdle /\ btIdle /\ cpIdle
NextCacheKey == ckGenerateCacheKeys /\ UNCHANGED exceptCacheKey
SpecCacheKey == InitCacheKey /\ [][NextCacheKey]_vars

----------------------------------------------------------------------------
(* Properties of ValidatePathSecurity *)

\* p is dir or lies below it, both cleaned absolute paths
Below(dir, p) ==
    \/ p = dir
    \/ HasPrefix(p, IF dir = <<Sep>> THEN dir ELSE dir \o <<Sep>>)

\* some element of p is ..
HasDotDotElement(p) == \E i \in 1..Len(SplitSegs(p)) : SplitSegs(p)[i] = DotDot

\* the .. elements of a relative path lead above where it starts: depth is the
\* number of directories entered so far
RECURSIVE ClimbsFrom(_, _)
ClimbsFrom(segs, depth) ==
    IF segs = <<>> THEN FALSE
    ELSE IF Head(segs) = <<>> \/ Head(segs) = Dot THEN ClimbsFrom(Tail(segs), depth)
    ELSE IF Head(segs) = DotDot
         THEN depth = 0 \/ ClimbsFrom(Tail(segs), depth - 1)
    ELSE ClimbsFrom(Tail(segs), depth + 1)

ClimbsAbove(p) == ~IsAbs(p) /\ ClimbsFrom(SplitSegs(p), 0)

vpReturned == vpPc = "returned"
vpTraversalError == vpResult = [path |-> NoPath, err |-> "path traversal not allowed"]
vpEscapesError ==
    vpResult = [path |-> NoPath, err |-> "path resolves outside working directory"]

\* C1: whenever ValidatePathSecurity returns without error, the returned
\* absolute path is the working directory itself or lies below it: it has no ..
\* element, the working directory is a path prefix of it, and its path relative
\* to the working directory neither starts with .. nor is absolute.
C1_ResultInsideWorkingDir ==
    (vpReturned /\ vpResult.err = "nil") =>
        LET wd == Abs(vpWorkingDir)
            rel == Rel(wd, vpResult.path)
        IN  /\ IsAbs(vpResult.path)
            /\ ~HasDotDotElement(vpResult.path)
            /\ Below(wd, vpResult.path)
            /\ ~HasPrefix(rel, DotDot)
            /\ ~IsAbs(rel)

\* an absolute path strictly below the working directory was accepted
C1_Witness ==
    /\ vpReturned
    /\ vpResult.err = "nil"
    /\ IsAbs(vpRequested)
    /\ vpResult.path # Abs(vpWorkingDir)
    /\ Abs(vpWorkingDir) # <<Sep>>

C7_Original ==
    (vpReturned /\ IsAbs(vpRequested) /\ ~Below(Abs(vpWorkingDir), Clean(vpRequested)))
        => vpEscapesError

----------------------------------------------------------------------------
(* Properties of validateCommand *)

vcReturned == vcPc = "returned"
vcAccepted == vcReturned /\ vcResult = "nil"

\* the first blank-delimited token of the command, character by character
vcLeadingToken == FirstField(TrimLeft(vcCommand))

\* C2: validateCommand accepts a command only if command substitution is
\* enabled, no dangerous pattern matches the command and its first
\* blank-delimited token equals an allowlist entry; so nothing is accepted when
\* substitution is disabled, and a command with a redirection, a nested $( or a
\* chained rm is rejected also when its leading token is allowlisted.
C2_AcceptOnlyIfSafe ==
    /\ vcAccepted =>
          /\ vcAllow
          /\ ~MatchesDangerous(vcCommand)
          /\ vcLeadingToken \in vcAllowed
          /\ ~Contains(vcCommand, <<">">>)
          /\ ~Contains(vcCommand, <<"<">>)
          /\ ~Contains(vcCommand, <<"$", "(">>)
          /\ ~Contains(vcCommand, <<";", " ", "r", "m", " ">>)
    /\ (vcReturned /\ ~vcAllow) => vcResult = "command substitution is disabled"

\* echo ok; rm -rf / was rejected with substitution enabled and echo allowlisted
C2_Witness ==
    /\ vcReturned
    /\ vcAllow
    /\ vcCommand = <<"e", "c", "h", "o", " ", "o", "k", ";", " ", "r", "m", " ",
                     "-", "r", "f", " ", "/">>
    /\ vcLeadingToken \in vcAllowed
    /\ vcResult = "dangerous command pattern detected"

----------------------------------------------------------------------------
(* Properties of SmartPermissionService *)

ApprovalsOf(table, k) == IF k \in DOMAIN table THEN table[k].ApprovalCount ELSE 0
DenialsOf(table, k) == IF k \in DOMAIN table THEN table[k].DenialCount ELSE 0

\* the step is a call of Request
spIsRequest == lastRequest'.n # lastRequest.n

\* C3: every stored pattern with AutoApprove set has a confidence of at least
\* the 0.8 threshold, at least 3 approvals and no denial.
C3_AutoApproveRequiresTrust ==
    \A k \in DOMAIN patterns :
        patterns[k].AutoApprove =>
            /\ patterns[k].Confidence.num * 10 >= 8 * patterns[k].Confidence.den
            /\ patterns[k].ApprovalCount >= 3
            /\ patterns[k].DenialCount = 0

\* some pattern has earned auto-approval
C3_Witness == \E k \in DOMAIN patterns : patterns[k].AutoApprove

\* C4: once a denial is recorded for a key, every later step that keeps the
\* pattern keeps the denial and leaves AutoApprove false, and every later
\* Request for that key asks the wrapped service.
C4_DenialDisablesAutoApprove ==
    [][\A k \in DOMAIN patterns' :
          /\ patterns'[k].DenialCount >= 1 => ~patterns'[k].AutoApprove
          /\ DenialsOf(patterns, k) >= 1 =>
                /\ patterns'[k].DenialCount >= 1
                /\ (spIsRequest /\ lastRequest'.key = k) => gateCalls' = gateCalls + 1
      ]_vars

\* a key with one denial, enough approvals and enough confidence, just asked for
C4_Witness ==
    \E k \in DOMAIN patterns :
        /\ patterns[k].DenialCount >= 1
        /\ patterns[k].ApprovalCount >= 3
        /\ AtLeastThreshold(patterns[k].Confidence)
        /\ lastRequest.key = k
        /\ lastRequest.returned

\* C5: with learning enabled, Request returns true without calling the wrapped
\* service exactly when the stored pattern of the key has AutoApprove set and a
\* confidence of at least 0.8; otherwise it calls the wrapped service once,
\* returns its verdict and adds one to the approvals or the denials of that key
\* and of no other.
C5_RequestContract ==
    [][(spIsRequest /\ enabled) =>
          LET k == lastRequest'.key
              trusted == /\ k \in DOMAIN patterns
                         /\ patterns[k].AutoApprove
                         /\ patterns[k].Confidence.num * 10 >= 8 * patterns[k].Confidence.den
              a0 == ApprovalsOf(patterns, k)
              d0 == DenialsOf(patterns, k)
              a1 == ApprovalsOf(patterns', k)
              d1 == DenialsOf(patterns', k)
          IN  /\ trusted <=> (lastRequest'.returned /\ gateCalls' = gateCalls)
              /\ trusted => (a1 = a0 /\ d1 = d0)
              /\ ~trusted =>
                    /\ gateCalls' = gateCalls + 1
                    /\ lastRequest'.returned = lastRequest'.gateVerdict
                    /\ IF lastRequest'.returned
                       THEN a1 = a0 + 1 /\ d1 = d0
                       ELSE a1 = a0 /\ d1 = d0 + 1
              /\ \A j \in (DOMAIN patterns \cup DOMAIN patterns') \ {k} :
                    /\ ApprovalsOf(patterns', j) = ApprovalsOf(patterns, j)
                    /\ DenialsOf(patterns', j) = DenialsOf(patterns, j)
      ]_vars

\* a request was approved on earned trust: more requests than calls of the
\* wrapped service
C5_Witness ==
    /\ enabled
    /\ lastRequest.returned
    /\ lastRequest.n > gateCalls
    /\ lastRequest.key \in DOMAIN patterns

----------------------------------------------------------------------------
(* Properties of ResolveValue *)

rvReturned == rvPc = "returned"
HasDollar(s) == \E i \in 1..Len(s) : s[i] = "$"

\* the characters of the result that command output put there
CommandCharacters == Cardinality({i \in 1..Len(rvOrigin) : rvOrigin[i] = "cmd"})

RECURSIVE OutputLength(_)
OutputLength(execs) ==
    IF execs = <<>> THEN 0
    ELSE Len(TrimSpace(Head(execs).stdout)) + OutputLength(Tail(execs))

\* C8 as stated: text produced by a command is never taken as the start of a
\* $(...) substitution nor of a $VAR or ${VAR} reference, and a value resolved
\* without error holds every command's output in full.
C8_Original ==
    /\ rvPc = "cmd" =>
          LET start == Index(rvResult, <<"$", "(">>) IN
          start # 0 => rvOrigin[start] # "cmd"
    /\ rvPc = "var" =>
          LET start == IndexFrom(rvResult, <<"$">>, rvSearchStart) IN
          start # 0 => rvOrigin[start] # "cmd"
    /\ (rvReturned /\ rvRet.err = "nil" /\ rvExecs # <<>>) =>
          CommandCharacters = OutputLength(rvExecs)

\* a name that is a letter or underscore followed by letters, digits, underscores
ValidName(n) == n # <<>> /\ n[1] \in NameStart /\ \A i \in 1..Len(n) : n[i] \in NameChar

\* the ${...} reference at position i of v, when there is one: its name
BracedName(v, i) == SubSeq(v, i + 2, IndexFrom(v, <<"}">>, i + 2) - 1)
IsBracedRef(v, i) ==
    OccursAt(v, <<"$", "{">>, i) /\ IndexFrom(v, <<"}">>, i + 2) # 0

\* the name of the $VAR reference at position i of v
PlainName(v, i) == SubSeq(v, i + 1, NameEnd(v, i + 1) - 1)
IsPlainRef(v, i) == i < Len(v) /\ v[i] = "$" /\ v[i + 1] \notin {"(", "{"}

\* the cases in which ResolveValue is to fail
FailClosedCase(v, env) ==
    \/ v # <<>> /\ v[Len(v)] = "$"
    \/ \E i \in 1..Len(v) : OccursAt(v, <<"$", "(">>, i) /\ MatchClose(v, i + 2, 0) = 0
    \/ \E i \in 1..Len(v) : OccursAt(v, <<"$", "{">>, i) /\ ~IsBracedRef(v, i)
    \/ \E i \in 1..Len(v) : IsBracedRef(v, i) /\ ~ValidName(BracedName(v, i))
    \/ \E i \in 1..Len(v) : IsPlainRef(v, i) /\ v[i + 1] \notin NameStart
    \/ \E i \in 1..Len(v) : IsBracedRef(v, i) /\ EnvGet(env, BracedName(v, i)) = <<>>
    \/ \E i \in 1..Len(v) : IsPlainRef(v, i) /\ EnvGet(env, PlainName(v, i)) = <<>>

\* C9 as stated: for an input with a reference to an unset variable, a trailing
\* $, an unmatched $( or ${, or a reference in either form whose name is not a
\* letter or underscore followed by letters, digits and underscores,
\* ResolveValue returns an error and the empty string.
C9_Original ==
    (rvReturned /\ FailClosedCase(rvValue, rvEnv)) =>
        (rvRet.err # "nil" /\ rvRet.val = <<>>)

\* C10: a value without $ is returned as it is and without error, no command
\* is executed and no variable is read; resolving such a result once more
\* returns it again.
C10_NoDollarUnchanged ==
    /\ (rvReturned /\ ~HasDollar(rvValue)) =>
          /\ rvRet = [val |-> rvValue, err |-> "nil"]
          /\ rvExecs = <<>>
          /\ rvReads = <<>>
    /\ (rvReturned /\ rvPrev.set /\ ~HasDollar(rvPrev.val)) =>
          rvRet = [val |-> rvPrev.val, err |-> "nil"]

\* a result with no $ and not empty was resolved once more
C10_Witness ==
    /\ rvReturned
    /\ rvPrev.set
    /\ ~HasDollar(rvPrev.val)
    /\ rvPrev.val # <<>>
    /\ rvValue = rvPrev.val

----------------------------------------------------------------------------
(* Properties of ResponseCache *)

rcSize == Cardinality(DOMAIN rcCache)

\* C11: on an enabled cache, Set stores under the key of (transcript, model) an
\* entry with the response given, the time of the call and the default TTL, and
\* the entry stays as it is until it is replaced or removed; a Get for the key
\* reads the stored entry, returns (that entry, true) when the time since the
\* entry's timestamp does not exceed its TTL, and otherwise removes the key and
\* returns (nil, false).
C11_SetThenGet ==
    [][/\ (rcCall'.op = "Set" /\ rcEnabled') =>
             /\ rcCall'.key \in DOMAIN rcCache'
             /\ rcCache'[rcCall'.key].Response = rcCall'.response
             /\ rcCache'[rcCall'.key].TTL = rcTTL
             /\ (rcCall' # rcCall => rcCache'[rcCall'.key].Timestamp = rcNow)
       /\ \A k \in DOMAIN rcCache \cap DOMAIN rcCache' :
             rcCache'[k] # rcCache[k] => (rcCall'.op = "Set" /\ rcCall'.key = k)
       /\ \A g \in Readers :
            LET p == rcProc[g]
                q == rcProc'[g]
            IN  /\ (p.pc = "lookup" /\ q # p /\ p.key \in DOMAIN rcCache) =>
                      (q.pc = "check" /\ q.entry = rcCache[p.key])
                /\ (p.pc = "check" /\ q # p) =>
                      IF rcNow - p.entry.Timestamp <= p.entry.TTL
                      THEN q.pc = "idle" /\ q.ret = [entry |-> p.entry, ok |-> TRUE]
                      ELSE q.pc = "delete"
                /\ (p.pc = "delete" /\ q # p) =>
                      /\ q.pc = "idle"
                      /\ q.ret = Miss
                      /\ p.key \notin DOMAIN rcCache'
      ]_vars

\* a Get has returned the entry of the latest Set when the time since the Set
\* was the TTL exactly
C11_Witness ==
    \E g \in Readers :
        /\ rcProc[g].pc = "idle"
        /\ rcProc[g].ret.ok
        /\ rcCall = [op |-> "Set", key |-> rcProc[g].key,
                     response |-> rcProc[g].ret.entry.Response]
        /\ rcNow - rcProc[g].ret.entry.Timestamp = rcProc[g].ret.entry.TTL

\* a Set has stored a key that was not in the cache
rcInsertsKey == DOMAIN rcCache' \ DOMAIN rcCache # {}

\* C12 as stated: the number of stored entries never exceeds maxSize; a Set of
\* a new key into a cache with fewer than maxSize entries removes nothing, and a
\* Set of a new key into a cache with maxSize entries leaves maxSize entries,
\* the one missing being an entry with the oldest timestamp (so that maxSize+1
\* Sets of distinct keys into an empty cache leave maxSize entries).
C12_Original ==
    [][/\ Cardinality(DOMAIN rcCache') <= rcMaxSize
       /\ (rcInsertsKey /\ rcSize < rcMaxSize) =>
             DOMAIN rcCache \subseteq DOMAIN rcCache'
       /\ (rcInsertsKey /\ rcSize = rcMaxSize) =>
             /\ Cardinality(DOMAIN rcCache') = rcMaxSize
             /\ \E victim \in DOMAIN rcCache :
                   /\ DOMAIN rcCache' = (DOMAIN rcCache \ {victim}) \cup {rcCall'.key}
                   /\ \A j \in DOMAIN rcCache :
                         rcCache[victim].Timestamp <= rcCache[j].Timestamp
      ]_vars

----------------------------------------------------------------------------
(* Properties of getPatternKey *)

\* the position after the run of characters of class cs that starts at i
RECURSIVE RunEnd(_, _, _)
RunEnd(s, i, cs) == IF i <= Len(s) /\ s[i] \in cs THEN RunEnd(s, i + 1, cs) ELSE i

\* s with every maximal run of at least n characters of class cs replaced by *
RECURSIVE EraseRuns(_, _, _)
EraseRuns(s, cs, n) ==
    IF s = <<>> THEN <<>>
    ELSE LET e == RunEnd(s, 1, cs) IN
         IF e = 1 THEN <<Head(s)>> \o EraseRuns(Tail(s), cs, n)
         ELSE (IF e - 1 >= n THEN <<"*">> ELSE SubSeq(s, 1, e - 1))
                 \o EraseRuns(Drop(s, e), cs, n)

\* s with the word characters after every .tmp replaced by *
RECURSIVE EraseTmpSuffix(_)
EraseTmpSuffix(s) ==
    IF s = <<>> THEN <<>>
    ELSE IF HasPrefix(s, <<".", "t", "m", "p">>)
    THEN <<".", "t", "m", "p", "*">> \o EraseTmpSuffix(Drop(s, RunEnd(s, 5, WordChar)))
    ELSE <<Head(s)>> \o EraseTmpSuffix(Tail(s))

\* s with the digits of every _digits. replaced by *
RECURSIVE EraseVersion(_)
EraseVersion(s) ==
    IF s = <<>> THEN <<>>
    ELSE LET e == RunEnd(s, 2, Digit) IN
         IF Head(s) = "_" /\ e > 2 /\ e <= Len(s) /\ s[e] = "."
         THEN <<"_", "*", ".">> \o EraseVersion(Drop(s, e + 1))
         ELSE <<Head(s)>> \o EraseVersion(Tail(s))

HexChar == {"a", "b", "c", "d", "e", "f"} \cup Digit

\* the two paths differ, and only in a run of digits, in a hex token of 8 or
\* more characters, in a temp-file suffix or in a version number
DifferOnlyInVolatilePart(p, q) ==
    /\ p # q
    /\ \/ EraseRuns(p, Digit, 1) = EraseRuns(q, Digit, 1)
       \/ EraseRuns(p, HexChar, 8) = EraseRuns(q, HexChar, 8)
       \/ EraseTmpSuffix(p) = EraseTmpSuffix(q)
       \/ EraseVersion(p) = EraseVersion(q)

kpReturned == kpPc = "returned"

\* C14 as stated: two requests of the same tool and action whose paths differ
\* only in a run of digits, a long hex token, a temp-file suffix or a version
\* number get the same pattern key.
C14_Original ==
    (kpReturned /\ DifferOnlyInVolatilePart(kpPathA, kpPathB)) => kpKeys[1] = kpKeys[2]

----------------------------------------------------------------------------
(* Properties of SmartPermissionService under parallel Request calls *)

\* C13 as stated: the confidence stored in every pattern is within [0, 1].
C13_Original ==
    \A i \in 1..Len(lvHeap) :
        /\ lvHeap[i].Confidence.num >= 0
        /\ lvHeap[i].Confidence.num <= lvHeap[i].Confidence.den

\* C15 as stated: at no time do two savePatterns calls have the pattern file
\* open for writing.
C15_Original == Cardinality(lvWriting) <= 1

\* C16 as stated: no field of a stored pattern is written by a goroutine that
\* holds only the read lock, and savePatterns reads no record that another
\* goroutine is about to write.
C16_Original ==
    /\ \A addr \in 1..Len(lvHeap) : TouchWriters(addr) = {}
    /\ \A s \in DOMAIN lvSave :
          lvSave[s].pc = "marshal" =>
              \A addr \in SnapAddrs(lvSave[s].snap) : StoreWriters(addr) = {}

\* every Request of the batch has returned
lvAllReturned == lvPc = "ready" /\ \A w \in DOMAIN lvReq : lvReq[w].pc = "done"

\* the requests for key that got the verdict approved from the wrapped service
Verdicts(key, approved) ==
    {w \in DOMAIN lvReq : /\ lvReq[w].asked
                          /\ lvKey(w) = key
                          /\ lvReq[w].approved = approved}

\* C17: when all the parallel Request calls have returned, every pattern counts
\* the approvals and the denials it was loaded with and one more for each
\* verdict the wrapped service gave for its key, and the confidence and
\* AutoApprove of a pattern that learned are those of its final counts:
\* approvals / total times 1.0, 1.1 (total >= 5) or 1.2 (total >= 10), and
\* AutoApprove exactly with confidence >= 0.8, 3 approvals and no denial.
C17_LearnUpdatesAtomic ==
    lvAllReturned =>
        /\ \A w \in DOMAIN lvReq : lvReq[w].asked => lvKey(w) \in DOMAIN lvTable
        /\ \A key \in DOMAIN lvTable :
             LET rec == lvHeap[lvTable[key]]
                 a == rec.ApprovalCount
                 d == rec.DenialCount
                 bonus == IF a + d >= 10 THEN 12 ELSE IF a + d >= 5 THEN 11 ELSE 10
             IN  /\ a = ApprovalsOf(lvLoaded, key) + Cardinality(Verdicts(key, TRUE))
                 /\ d = DenialsOf(lvLoaded, key) + Cardinality(Verdicts(key, FALSE))
                 /\ (Verdicts(key, TRUE) \cup Verdicts(key, FALSE) # {}) =>
                       /\ rec.Confidence.num * (a + d) * 10 = a * bonus * rec.Confidence.den
                       /\ rec.AutoApprove <=> (a * bonus >= 8 * (a + d) /\ a >= 3 /\ d = 0)

\* three parallel requests for one key have returned, two approved and one denied
C17_Witness ==
    /\ lvAllReturned
    /\ \E key \in DOMAIN lvTable :
          /\ Cardinality(Verdicts(key, TRUE)) = 2
          /\ Cardinality(Verdicts(key, FALSE)) = 1

\* C18 as stated: whatever the pattern file holds, the service is constructed
\* with a usable pattern table (a map that can be written, with no nil record),
\* empty when the file is missing, unreadable or unparsable, and no Request
\* crashes.
C18_Original ==
    /\ ~lvPanicked
    /\ lvPc = "ready" =>
          /\ ~lvNil
          /\ \A k \in DOMAIN lvTable : lvTable[k] # NilAddr
          /\ lvFile.kind \in {"missing", "unreadable", "unparsable", "garbled"} =>
                (lvReq[1].pc = "idle" => lvTable = EmptyTable)

----------------------------------------------------------------------------
(* Properties of the command execution of ResolveValue *)

\* the command was still running when the caller's context was done
exCutShort == exCancelled /\ exCancelAt < exDuration

\* C19 as stated: once the caller's context is cancelled or has timed out
\* while the command runs, no time passes in the execution and ResolveValue
\* returns an error at once; and no execution lasts beyond the 5 minutes, a
\* command that needs more ends with an error.
C19_Original ==
    /\ exPc = "exec" /\ exCutShort => exElapsed = exCancelAt
    /\ exPc = "returned" /\ exCutShort => exRet = "error" /\ exElapsed = exCancelAt
    /\ exElapsed <= ExecTimeout
    /\ exPc = "returned" /\ exDuration > ExecTimeout => exRet = "error"

----------------------------------------------------------------------------
(* Properties of CostEstimator.ShouldProceed *)

\* the order of the extended reals on float64 values that are not NaN
Exceeds(cost, ceiling) ==
    /\ cost # NaN /\ ceiling # NaN
    /\ cost # ceiling
    /\ \/ cost = PosInf
       \/ ceiling = NegInf
       \/ cost.kind = "num" /\ ceiling.kind = "num" /\ cost.n > ceiling.n

\* C20: every call of ShouldProceed answers (false, a reason that is not
\* empty) when the cost is strictly greater than the ceiling and (true, "")
\* otherwise, so also for a cost equal to the ceiling; two calls with the
\* same cost have the same answer, and no call changes the ceiling.
C20_ShouldProceed ==
    /\ \A i \in DOMAIN ceCalls :
          /\ Exceeds(ceCalls[i].cost, ceThreshold) =>
                ~ceCalls[i].ret.proceed /\ ceCalls[i].ret.reason # ""
          /\ ~Exceeds(ceCalls[i].cost, ceThreshold) =>
                ceCalls[i].ret.proceed /\ ceCalls[i].ret.reason = ""
    /\ \A i, j \in DOMAIN ceCalls :
          ceCalls[i].cost = ceCalls[j].cost => ceCalls[i].ret = ceCalls[j].ret

\* a cost equal to the ceiling was asked twice
C20_Witness ==
    /\ Len(ceCalls) = MaxCalls
    /\ ceThreshold.kind = "num"
    /\ \E i, j \in DOMAIN ceCalls :
          /\ i # j
          /\ ceCalls[i].cost = ceThreshold
          /\ ceCalls[j].cost = ceThreshold

----------------------------------------------------------------------------
(* Properties of ResponseCache under replacement and parallel calls *)

\* the step is a Set that changed the cache
rcIsSet == rcCall'.op = "Set" /\ rcCache' # rcCache

\* C29 as stated: a Set for a key that is stored replaces the entry of that key
\* and removes no other entry, whatever the number of entries; a Set removes
\* an entry only when its key is new and the cache holds maxSize entries.
C29_Original ==
    [][rcIsSet =>
          /\ rcCall'.key \in DOMAIN rcCache => DOMAIN rcCache' = DOMAIN rcCache
          /\ ~(DOMAIN rcCache \subseteq DOMAIN rcCache') =>
                (rcCall'.key \notin DOMAIN rcCache /\ rcSize >= rcMaxSize)
      ]_vars

\* C27 as stated: a Get removes the entry of its key only if the entry that is
\* stored when it removes is expired.
C27_Original ==
    [][\A g \in Readers :
          (/\ rcProc[g].pc = "delete"
           /\ rcProc'[g] # rcProc[g]
           /\ rcProc[g].key \in DOMAIN rcCache) =>
                IsExpired(rcCache[rcProc[g].key], rcNow)
      ]_vars

----------------------------------------------------------------------------
(* Properties of generateCacheKey *)

\* C28 as stated: two requests that are not equal (in the model ID, in the
\* role or the text of a message, in the split of the text into messages and
\* parts, or in a part that is no text) have different keys.
C28_Original ==
    (ckPc = "returned" /\ ckReqA # ckReqB) => ckKeys[1] # ckKeys[2]

----------------------------------------------------------------------------
(* Properties of the persisted pattern file *)

\* no Request, no ClearLearning and no save is running, and no save and no
\* removal of the file has failed
lvQuiet ==
    /\ lvPc = "ready"
    /\ \A w \in DOMAIN lvReq : lvReq[w].pc \in {"idle", "done"}
    /\ \A s \in DOMAIN lvSave : lvSave[s].pc = "none"
    /\ clPc \in {"idle", "call", "done"}

\* the records of the pattern table in memory
lvRecords == [k \in DOMAIN lvTable |-> lvHeap[lvTable[k]]]

\* C30 as stated, for files that parse (a file left unparsable by overlapping
\* writes is C15's matter): once no save is running and none has failed, the
\* pattern file holds the records of the pattern table in memory, and after a
\* ClearLearning that has returned it holds none of the cleared patterns.
C30_Original ==
    (lvQuiet /\ lvFile.kind = "table") => lvFile.patterns = lvRecords

----------------------------------------------------------------------------
(* Properties of FeedbackMechanism.EvaluateResponse *)

\* the sum of the five metrics weighted .30/.20/.25/.15/.10, as a fraction
WeightedSum(m) ==
    Fraction(m.relevance.den * (30 * m.completeness + 20 * m.clarity
                                + 15 * m.specificity + 10 * m.error_indicators)
             + 250 * m.relevance.num,
             1000 * m.relevance.den)

\* a float64 result is at or above the threshold (in hundredths)
AtOrAbove(score, threshold) ==
    \/ score.num * 100 > threshold * score.den
    \/ score.num * 100 = threshold * score.den /\ score.ulp >= 0

\* C23: with the gate enabled the score returned is the weighted sum of the five
\* metrics (up to the rounding of float64) and requiresRetry is true exactly
\* when that score is strictly below the threshold; with the gate disabled the
\* result is score 1.0, confidence 0.5, no retry and no issues, for every input.
C23_RetryBelowThreshold ==
    fbPc = "returned" =>
        IF fbEnabled
        THEN /\ fbRet.Score.num * WeightedSum(fbRet.Metrics).den
                    = WeightedSum(fbRet.Metrics).num * fbRet.Score.den
             /\ fbRet.RequiresRetry <=> ~AtOrAbove(fbRet.Score, fbThreshold)
        ELSE /\ fbRet.Score = Rounded(1, 1, 0)
             /\ fbRet.Confidence = 5
             /\ ~fbRet.RequiresRetry
             /\ fbRet.Issues = <<>>

\* a reply whose score is the threshold 0.7 exactly was evaluated and needs no
\* retry
C23_Witness ==
    /\ fbPc = "returned"
    /\ fbEnabled
    /\ fbThreshold = 70
    /\ fbRet.Score.num * 100 = fbThreshold * fbRet.Score.den
    /\ fbRet.Score.ulp = 0
    /\ ~fbRet.RequiresRetry

\* the words of the texts of a message
fbWords(msg) == Fields(extractTextContent(msg))

\* C24: with the gate enabled, a reply that is not empty and has fewer than
\* half as many words as the request has a completeness below 0.5; and the reply
\* "I don't know" to a request of 50 words needs a retry at the threshold 0.7.
C24_ShortReplyIncomplete ==
    (fbPc = "returned" /\ fbEnabled) =>
        /\ (/\ extractTextContent(fbResponse) # <<>>
            /\ 2 * Len(fbWords(fbResponse)) < Len(fbWords(fbUser))) =>
                fbRet.Metrics.completeness < 5
        /\ (/\ fbWords(fbResponse) = Fields(ReplyDontKnow)
            /\ Len(fbWords(fbUser)) = 50
            /\ fbThreshold = 70) =>
                (fbRet.Metrics.completeness < 5 /\ fbRet.RequiresRetry)

\* "I don't know" was evaluated against the request of 50 words that holds its
\* words, at the threshold 0.7
C24_Witness ==
    /\ fbPc = "returned"
    /\ fbEnabled
    /\ fbThreshold = 70
    /\ extractTextContent(fbUser) = UserFiftyKnow
    /\ extractTextContent(fbResponse) = ReplyDontKnow
    /\ fbRet.Metrics.relevance = Fraction(1, 1)
    /\ fbRet.RequiresRetry


\* message i of the input is neither a system message nor one of the last five
omOlder(i) ==
    /\ omGiven.messages[i].Role # RoleSystem
    /\ i <= Len(omGiven.messages) - 5
omReduced == omPc = "returned" /\ omReduction > 0 /\ omReduction < 4
omTarget ==
    targetSizeOf(countTokensInMessages(omGiven.heap, omGiven.messages), omReduction)

\* C21: for a reduction strictly between 0 and 1 the returned transcript
\* holds every system message and each of the last min(5, n) messages
\* unmodified, holds every other message it includes in summarized form,
\* keeps the order of the input, and includes an older message that is not
\* a system message only if the estimate of the messages selected before it
\* is below the reduced target
C21_OptimizedSelection ==
    omReduced =>
        LET in == omGiven.messages
            out == omRet.messages
        IN  /\ \A i \in 1..Len(in) :
                  ~omOlder(i) =>
                     \E j \in 1..Len(out) :
                        /\ out[j] = in[i]
                        /\ PartsAt(omHeap, out[j].Parts) = PartsAt(omGiven.heap, in[i].Parts)
            /\ \A j \in 1..Len(out) :
                  /\ out[j].ID \in 1..Len(in)
                  /\ omOlder(out[j].ID) =>
                        /\ out[j].Role = in[out[j].ID].Role
                        /\ PartsAt(omHeap, out[j].Parts)
                              = summarizeParts(PartsAt(omGiven.heap, in[out[j].ID].Parts))
                        /\ countTokensInMessages(omHeap, SubSeq(out, 1, j - 1)) < omTarget
            /\ \A j, k \in 1..Len(out) : j < k => out[j].ID < out[k].ID

\* a reduced transcript in which an older message was shortened and another
\* older message was left out
C21_Witness ==
    /\ omReduced
    /\ \E j \in 1..Len(omRet.messages) :
          /\ omOlder(omRet.messages[j].ID)
          /\ PartsAt(omHeap, omRet.messages[j].Parts)
                # PartsAt(omGiven.heap, omGiven.messages[omRet.messages[j].ID].Parts)
    /\ \E i \in 1..Len(omGiven.messages) :
          /\ omOlder(i)
          /\ \A j \in 1..Len(omRet.messages) : omRet.messages[j].ID # i

\* C22: after a call of OptimizeMessages, whatever the reduction, every
\* message of the transcript that was passed and every part of every
\* message is as it was, and for a reduction <= 0 or >= 1 the transcript
\* that was passed is what is returned
C22_InputUnmodified ==
    omPc = "returned" =>
        /\ omMessages = omGiven.messages
        /\ \A a \in DOMAIN omGiven.heap : omHeap[a] = omGiven.heap[a]
        /\ (omReduction <= 0 \/ omReduction >= 4) =>
              /\ omRet.same
              /\ omRet.messages = omGiven.messages
              /\ omHeap = omGiven.heap

\* a call that shortened the text of an older message in what it returned
C22_Witness ==
    /\ omReduced
    /\ \E j \in 1..Len(omRet.messages) :
          LET p == PartsAt(omHeap, omRet.messages[j].Parts)
              q == PartsAt(omGiven.heap, omGiven.messages[omRet.messages[j].ID].Parts)
          IN  \E k \in 1..Len(p) :
                 /\ p[k].kind = "text"
                 /\ TextLen(p[k].Text) = 415
                 /\ TextLen(q[k].Text) = 600


\* everything the operation read, wrote, created or walked
btTouched == btRead \cup btWritten \cup btWalked
\* the path parameters the operation was given
btPathParams == {q.value : q \in {q \in {btOp.path} \cup
                                   (IF btOp.type = "file_copy" THEN {btOp.other} ELSE {}) :
                                        q.given}}

\* C25: every file a batch operation reads, writes or walks lies inside the
\* tool's working directory and its path parameters have passed
\* ValidatePathSecurity; an operation with a path parameter that is absolute
\* and outside the working directory, or leaves it through "..", fails
\* without touching the file system
C25_Original ==
    btPc = "returned" =>
        /\ \A p \in btTouched : InsideDir(p, btWorkingDir)
        /\ btTouched # {} =>
              \A q \in btPathParams : ValidatePathSecurity(q, btWorkingDir).err = "nil"
        /\ (\E q \in btPathParams :
               ~InsideDir(IF IsAbs(q) THEN Clean(q) ELSE JoinPath(btWorkingDir, q),
                          btWorkingDir))
              => btErr /\ btTouched = {}


\* C26: RestoreCheckpoint applies a stash or resets the repository only
\* after a permission request for that restore was made and granted; with
\* no approval (the request was denied, or none was made because the
\* session or message identity is missing from the context) it changes
\* nothing and returns an error
C26_Original ==
    cpPc = "returned" =>
        LET approved == cpRequests # <<>> /\ cpGranted
        IN  /\ cpWorktree # UncommittedChanges => approved
            /\ ~approved => cpWorktree = UncommittedChanges /\ cpErr # "nil"

====
